---- MODULE Spec2Model ----
(***************************************************************************)
(* Verification model of the timetable application (emploi-temps-app).     *)
(*                                                                         *)
(* Spec           room assignment across worker processes: the JSON        *)
(*                mapping on disk, each worker's ScheduleManager copy, the *)
(*                SQLite rows and the use_database switch.                 *)
(* SpecCache      the occupied-rooms query and its two caches, with the    *)
(*                wall clock in seconds.                                   *)
(* SpecRate       the per-worker rate limiter in front of every request.   *)
(* SpecCourses    custom courses, TP names and room assignment served by   *)
(*                any worker, with force_sync_data.                        *)
(* SpecMutations  every state-mutating endpoint (rooms, custom courses,    *)
(*                TP names, professors) and force_sync_data.               *)
(* SpecLock       force_sync_data_with_lock and the 5-second lock wait.    *)
(* SpecMonitor    the supervisor monitor and its restart budget.           *)
(* SpecMetrics    MetricsCollector and the /api/health endpoint.           *)
(* SpecMigration  MigrationService.migrate_all_data on JSON files and      *)
(*                SQLite tables.                                           *)
(* SpecWeek       the current-week routines, on every day of 2024..2027.   *)
(* SpecFind       find_week_info on bounded calendars.                     *)
(* SpecTime       time_to_minutes on bounded strings.                      *)
(* SpecName       normalize_professor_name on bounded strings.             *)
(* SpecGrid       placement of courses in the weekly grid.                 *)
(* SpecCustomRoom room assignment of custom courses, in both modes.        *)
(* SpecMetricsLock, SpecMetricsLockFair                                    *)
(*                the threads of one process on MetricsCollector._lock,    *)
(*                without and with fairness.                               *)
(* SpecDomain     RoomAssignmentService on the course repository.          *)
(* SpecPlan       the planning cache and data/.last_sync.                  *)
(* SpecColor      default professor colours across worker processes.       *)
(* SpecCalendar   current-week detection on every calendar Monday.         *)
(***************************************************************************)
EXTENDS Integers, Sequences, FiniteSets, TLC

\* Worker processes: each holds its own ScheduleManager and caches.
Workers == {1, 2}

\* ------------------------------------------------------------ course data
NoRoom == "none"

Rooms == {"A101"}

RoomOrNone == Rooms \cup {NoRoom}

\* A clock time "HH:MM" is a sequence of one-character strings.
T0800 == <<"0", "8", ":", "0", "0">>
T0900 == <<"0", "9", ":", "0", "0">>
T1000 == <<"1", "0", ":", "0", "0">>
T1100 == <<"1", "1", ":", "0", "0">>
T1200 == <<"1", "2", ":", "0", "0">>

CourseIds == {"c1", "c2", "c3"}

\* The expanded canonical courses: c1 and c2 overlap, c2 and c3 overlap,
\* c1 ends exactly when c3 starts.
CourseOrder == <<"c1", "c2", "c3">>

CourseTable ==
    [c \in CourseIds |->
        CASE c = "c1" -> [week_name |-> "Semaine 37 A", day |-> "Lundi",
                          start_time |-> T0800, end_time |-> T1000]
          [] c = "c2" -> [week_name |-> "Semaine 37 A", day |-> "Lundi",
                          start_time |-> T0900, end_time |-> T1100]
          [] c = "c3" -> [week_name |-> "Semaine 37 A", day |-> "Lundi",
                          start_time |-> T1000, end_time |-> T1200]]

\* -------------------------------------------------------- TimeSlotService
ValueError == -1

DigitVal(ch) ==
    CASE ch = "0" -> 0 [] ch = "1" -> 1 [] ch = "2" -> 2 [] ch = "3" -> 3
      [] ch = "4" -> 4 [] ch = "5" -> 5 [] ch = "6" -> 6 [] ch = "7" -> 7
      [] ch = "8" -> 8 [] ch = "9" -> 9 [] OTHER -> ValueError

\* int(s) of a string of decimal digits; ValueError otherwise.
RECURSIVE ParseInt(_)
ParseInt(s) ==
    IF Len(s) = 0 THEN ValueError
    ELSE IF DigitVal(s[Len(s)]) = ValueError THEN ValueError
    ELSE IF Len(s) = 1 THEN DigitVal(s[1])
    ELSE LET hi == ParseInt(SubSeq(s, 1, Len(s) - 1))
         IN  IF hi = ValueError THEN ValueError
             ELSE 10 * hi + DigitVal(s[Len(s)])

ColonPositions(s) == {i \in 1..Len(s) : s[i] = ":"}

time_to_minutes(time_str) ==
    IF ColonPositions(time_str) = {} THEN 0
    ELSE IF Cardinality(ColonPositions(time_str)) # 1 THEN ValueError
    ELSE LET k       == CHOOSE i \in ColonPositions(time_str) : TRUE
             hours   == ParseInt(SubSeq(time_str, 1, k - 1))
             minutes == ParseInt(SubSeq(time_str, k + 1, Len(time_str)))
         IN  IF hours = ValueError \/ minutes = ValueError THEN ValueError
             ELSE hours * 60 + minutes

\* ---------------------------------------------------- RoomConflictService
times_overlap_strict(start1, end1, start2, end2) ==
    ~(time_to_minutes(end1) < time_to_minutes(start2)
        \/ time_to_minutes(end2) < time_to_minutes(start1))

times_overlap(start1, end1, start2, end2) ==
    ~(time_to_minutes(end1) <= time_to_minutes(start2)
        \/ time_to_minutes(end2) <= time_to_minutes(start1))

\* all_courses is a sequence of course records.
FindCourse(course_id, all_courses) ==
    {i \in 1..Len(all_courses) : all_courses[i].course_id = course_id}

ConflictingCourses(course_id, room_id, all_courses) ==
    LET cur == all_courses[CHOOSE i \in FindCourse(course_id, all_courses) :
                   \A j \in FindCourse(course_id, all_courses) : i <= j]
    IN  {i \in 1..Len(all_courses) :
            /\ all_courses[i].course_id # course_id
            /\ all_courses[i].assigned_room = room_id
            /\ all_courses[i].week_name = cur.week_name
            /\ all_courses[i].day = cur.day
            /\ times_overlap(cur.start_time, cur.end_time,
                             all_courses[i].start_time, all_courses[i].end_time)}

check_room_conflict(course_id, room_id, all_courses) ==
    IF FindCourse(course_id, all_courses) = {} THEN TRUE
    ELSE ConflictingCourses(course_id, room_id, all_courses) # {}

check_room_conflict_detailed(course_id, room_id, all_courses) ==
    IF FindCourse(course_id, all_courses) = {} THEN TRUE
    ELSE Cardinality(ConflictingCourses(course_id, room_id, all_courses)) > 0

\* ------------------------------------------------------------------ state
VARIABLES
    file_assignments,     \* data/room_assignments.json: course_id -> room_id
    room_assignments,     \* per worker: ScheduleManager.room_assignments
    use_database,         \* per worker: ScheduleManager.use_database
    db_assigned,          \* SQLite courses.assigned_room, by course_id
    resp,                 \* the last request served and its answer
    e2e,                  \* observer: progress of the assign / reject / remove scenario
    file_custom_courses,  \* data/custom_courses.json
    custom_courses,       \* per worker: TPManagementService.custom_courses
    file_canonical,       \* data/professors_canonical_schedule.json: professor -> schedule
    canonical_schedules,  \* per worker: ScheduleManager.canonical_schedules
    file_prof_data,       \* data/prof_data.json (professor -> colour)
    prof_data,            \* per worker: ScheduleManager.prof_data
    rooms,                \* per worker: ScheduleManager.rooms
    file_tp_names,        \* data/tp_names.json: course_id -> TP name
    file_prof_id_mapping, \* data/prof_id_mapping.json: the professors given an id
    usec,                 \* the wall clock, in microseconds (custom course ids)
    now,                  \* the wall clock, in seconds (cache timestamps)
    occupied_rooms_cache, \* per worker: CacheService._occupied_rooms_cache
    flask_cache,          \* per worker: the Flask cache extension's store
    cache_ext,            \* what app.extensions['cache'] holds in this build
    last_query,           \* observer: when each course's occupied rooms were last asked
    rl_requests,          \* per worker: RateLimiter.requests, IP -> timestamps
    blocked_ips,          \* per worker: RateLimiter.blocked_ips, IP -> end of block
    passed,               \* observer: per worker and IP, the requests let through
    limit_hit,            \* observer: per worker and IP, the open limit episode
    sync_lock,            \* data/.sync_lock: the worker holding the flock, 0 when free
    sync_pc,              \* per worker: position in force_sync_data_with_lock
    sync_start,           \* per worker: start_time of the acquisition loop
    sync_calls,           \* per worker: reload_callback invocations of the current call
    sync_held,            \* observer: per worker, the lock was never free since start_time
    restart_count,        \* AppMonitor.restart_count
    last_restart_time,    \* AppMonitor.last_restart_time
    last_check,           \* the monitoring loop: when the last health check ran
    restart_log,          \* observer: the times of the restarts performed
    perf_len,             \* len(MetricsCollector.performance_metrics), a deque(maxlen)
    error_count,          \* sum of MetricsCollector.error_metrics
    recorded_total,       \* observer: the requests recorded since process start
    json_rows,            \* per table, the key -> value content of its JSON file
    db_rows,              \* per table, the rows of the SQLite table
    today,                \* the date the current-week routines read: [year, ordinal]
    week_out,             \* the last result of a week routine
    fw_label,             \* the week name looked up
    fw_calendar,          \* the list of week entries searched
    fw_out,               \* the last result of a find_week_info
    tm_input,             \* the string handed to time_to_minutes
    tm_out,               \* the outcome of the last time_to_minutes call
    np_input,             \* the string handed to normalize_professor_name
    np_out,               \* the outcome of normalising it once and twice
    grid_builder,         \* the routine that builds the weekly grid
    grid_courses,         \* the courses placed so far, in order
    weekly_grid,          \* day -> slot label -> the entries of the slot
    file_custom_rooms,    \* data/room_assignments.json: the entries of custom courses
    db_custom_courses,    \* the rows of the SQLite custom_courses table
    metrics_lock,         \* MetricsCollector._lock: the thread that holds it, or NoThread
    metrics_stack,        \* per thread, the collector methods it is executing, innermost first
    metrics_pc,           \* per thread: idle, with_lock (at "with self._lock"), body, returned
    repo_assigned,        \* CourseRepository: the saved assigned_room_id of every course
    last_sync_file,       \* data/.last_sync: the float it holds, or NoSyncFile
    cs_last_sync_time,    \* per worker, CacheService._last_sync_time
    courses_cache,        \* per worker, CacheService._courses_cache by week name
    sync_changes,         \* how many times the stored timestamp has changed
    hash_color,           \* per worker process, PROF_COLORS[hash(prof_name) % 9] for every name
    color_returned,       \* per professor, the first colour get_prof_color returned
    cal_index,            \* the position of a calendar entry, from 1
    cal_out               \* what current-week detection answered on that entry's Monday

assignVars == <<file_assignments, room_assignments, use_database, db_assigned>>

dataVars == <<file_custom_courses, custom_courses, file_canonical, canonical_schedules,
              file_prof_data, prof_data, rooms, file_tp_names, file_prof_id_mapping,
              usec>>

cacheVars == <<now, occupied_rooms_cache, flask_cache, cache_ext, last_query>>

rateVars == <<rl_requests, blocked_ips, passed, limit_hit>>

lockVars == <<sync_lock, sync_pc, sync_start, sync_calls, sync_held>>

monitorVars == <<restart_count, last_restart_time, last_check, restart_log>>

metricsVars == <<perf_len, error_count, recorded_total>>

migrationVars == <<json_rows, db_rows>>

weekVars == <<today, week_out>>

findVars == <<fw_label, fw_calendar, fw_out>>

timeVars == <<tm_input, tm_out>>

nameVars == <<np_input, np_out>>

gridVars == <<grid_builder, grid_courses, weekly_grid>>

customRoomVars == <<file_custom_rooms, db_custom_courses>>

metricsLockVars == <<metrics_lock, metrics_stack, metrics_pc>>

domainVars == <<repo_assigned>>

planVars == <<last_sync_file, cs_last_sync_time, courses_cache, sync_changes>>

colorVars == <<hash_color, color_returned>>

calendarVars == <<cal_index, cal_out>>

auxVars == <<lockVars, monitorVars, metricsVars, migrationVars, weekVars, findVars, timeVars, nameVars, gridVars, customRoomVars, metricsLockVars, domainVars, planVars, colorVars, calendarVars>>

\* The auxiliary state each component leaves alone.
auxButLock == <<monitorVars, metricsVars, migrationVars, weekVars, findVars, timeVars,
                nameVars, gridVars, customRoomVars, metricsLockVars, domainVars, planVars, colorVars, calendarVars>>

auxButMonitor == <<lockVars, metricsVars, migrationVars, weekVars, findVars, timeVars,
                   nameVars, gridVars, customRoomVars, metricsLockVars, domainVars, planVars, colorVars, calendarVars>>

auxButMetrics == <<lockVars, monitorVars, migrationVars, weekVars, findVars, timeVars,
                   nameVars, gridVars, customRoomVars, metricsLockVars, domainVars, planVars, colorVars, calendarVars>>

auxButMigration == <<lockVars, monitorVars, metricsVars, weekVars, findVars, timeVars,
                     nameVars, gridVars, customRoomVars, metricsLockVars, domainVars, planVars, colorVars, calendarVars>>

auxButWeek == <<lockVars, monitorVars, metricsVars, migrationVars, findVars, timeVars,
                nameVars, gridVars, customRoomVars, metricsLockVars, domainVars, planVars, colorVars, calendarVars>>

auxButFind == <<lockVars, monitorVars, metricsVars, migrationVars, weekVars, timeVars,
                nameVars, gridVars, customRoomVars, metricsLockVars, domainVars, planVars, colorVars, calendarVars>>

auxButTime == <<lockVars, monitorVars, metricsVars, migrationVars, weekVars, findVars,
                nameVars, gridVars, customRoomVars, metricsLockVars, domainVars, planVars, colorVars, calendarVars>>

auxButName == <<lockVars, monitorVars, metricsVars, migrationVars, weekVars, findVars,
                timeVars, gridVars, customRoomVars, metricsLockVars, domainVars, planVars, colorVars, calendarVars>>

auxButGrid == <<lockVars, monitorVars, metricsVars, migrationVars, weekVars, findVars,
                timeVars, nameVars, customRoomVars, metricsLockVars, domainVars, planVars, colorVars, calendarVars>>

auxButCustomRoom == <<lockVars, monitorVars, metricsVars, migrationVars, weekVars, findVars, timeVars, nameVars, gridVars, metricsLockVars, domainVars, planVars, colorVars, calendarVars>>

auxButMetricsLock == <<lockVars, monitorVars, metricsVars, migrationVars, weekVars, findVars, timeVars, nameVars, gridVars, customRoomVars, domainVars, planVars, colorVars, calendarVars>>

auxButMetricsAndLock == <<lockVars, monitorVars, migrationVars, weekVars, findVars, timeVars, nameVars, gridVars, customRoomVars, domainVars, planVars, colorVars, calendarVars>>

auxButDomain == <<lockVars, monitorVars, metricsVars, migrationVars, weekVars, findVars, timeVars, nameVars, gridVars, customRoomVars, metricsLockVars, planVars, colorVars, calendarVars>>

auxButPlan == <<lockVars, monitorVars, metricsVars, migrationVars, weekVars, findVars, timeVars, nameVars, gridVars, customRoomVars, metricsLockVars, domainVars, colorVars, calendarVars>>

auxButColor == <<lockVars, monitorVars, metricsVars, migrationVars, weekVars, findVars, timeVars, nameVars, gridVars, customRoomVars, metricsLockVars, domainVars, planVars, calendarVars>>

auxButCalendar == <<lockVars, monitorVars, metricsVars, migrationVars, weekVars, findVars, timeVars, nameVars, gridVars, customRoomVars, metricsLockVars, domainVars, planVars, colorVars>>

vars == <<assignVars, resp, e2e, dataVars, cacheVars, rateVars, auxVars>>

NoAssignments == [c \in CourseIds |-> NoRoom]

\* data/salle.json, which no request writes.
RoomsFile == Rooms

\* Professors, and what the canonical schedule file holds for each: no key,
\* an empty course list (as add_professor creates), or a list of courses.
Professors == {"M Martin"}

NoProfessor == "absent"

EmptySchedule == "empty"

SomeCourses == "courses"

\* ProfessorManagementService.PROF_COLORS (one of the nine colours).
PROF_COLORS == {"#e57373"}

NoColor == "none"

NoTPName == ""

NoCacheEntry == [present |-> FALSE]

EmptyCache == [c \in CourseIds |-> NoCacheEntry]

Resp(op, w, c, r, ok, wrote, synced) ==
    [op |-> op, worker |-> w, course_id |-> c, room_id |-> r, success |-> ok,
     wrote |-> wrote, synced |-> synced]

NoResp == Resp("none", 0, "", "", FALSE, FALSE, "none")

\* ------------------------------------------------ course materialisation
CourseRecord(c, assigned) ==
    [course_id |-> c,
     week_name |-> CourseTable[c].week_name,
     day |-> CourseTable[c].day,
     start_time |-> CourseTable[c].start_time,
     end_time |-> CourseTable[c].end_time,
     assigned_room |-> assigned]

\* ScheduleDataService.get_all_courses: canonical courses expanded, each
\* with the room the given mapping records for it (None when absent).
data_service_get_all_courses(mapping) ==
    [i \in 1..Len(CourseOrder) |-> CourseRecord(CourseOrder[i], mapping[CourseOrder[i]])]

\* DatabaseService.get_all_courses: the rows of the courses table.
DatabaseService_get_all_courses ==
    [i \in 1..Len(CourseOrder) |-> CourseRecord(CourseOrder[i], db_assigned[CourseOrder[i]])]

get_all_courses(w) ==
    IF use_database[w] THEN DatabaseService_get_all_courses
    ELSE data_service_get_all_courses(room_assignments[w])

\* ------------------------------------------------------------ initial state
InitAssign ==
    /\ file_assignments = NoAssignments
    /\ room_assignments = [w \in Workers |-> NoAssignments]
    /\ use_database = [w \in Workers |-> TRUE]
    /\ db_assigned = NoAssignments
    /\ resp = NoResp
    /\ e2e = 0

InitData ==
    /\ file_custom_courses = <<>>
    /\ custom_courses = [w \in Workers |-> <<>>]
    /\ file_canonical = [p \in Professors |-> SomeCourses]
    /\ canonical_schedules = [w \in Workers |-> [p \in Professors |-> SomeCourses]]
    /\ file_prof_data = [p \in Professors |-> NoColor]
    /\ prof_data = [w \in Workers |-> [p \in Professors |-> NoColor]]
    /\ rooms = [w \in Workers |-> RoomsFile]
    /\ file_tp_names = [c \in CourseIds |-> NoTPName]
    /\ file_prof_id_mapping = Professors
    /\ usec = 0

\* app.extensions['cache'] is filled by the Flask-Caching library, which is
\* not part of the repository: either it is the cache object the handler is
\* written against (get / set with a timeout), or it is the library's
\* registry, a plain dict keyed by Cache instance, which has get but no set.
CacheExtKinds == {"cache_object", "registry_dict"}

NeverAsked == [asked |-> FALSE]

InitCache ==
    /\ now = 0
    /\ occupied_rooms_cache = [w \in Workers |-> EmptyCache]
    /\ flask_cache = [w \in Workers |-> EmptyCache]
    /\ last_query = [c \in CourseIds |-> NeverAsked]

\* Client addresses.
IPs == {"10.0.0.1"}

NotBlocked == [blocked |-> FALSE]

NoLimitHit == [hit |-> FALSE]

InitRate ==
    /\ rl_requests = [w \in Workers |-> [ip \in IPs |-> <<>>]]
    /\ blocked_ips = [w \in Workers |-> [ip \in IPs |-> NotBlocked]]
    /\ passed = [w \in Workers |-> [ip \in IPs |-> [web |-> <<>>, api |-> <<>>]]]
    /\ limit_hit = [w \in Workers |-> [ip \in IPs |-> NoLimitHit]]

InitBuild == cache_ext \in CacheExtKinds

NoLock == 0

InitLock ==
    /\ sync_lock = NoLock
    /\ sync_pc = [w \in Workers |-> "idle"]
    /\ sync_start = [w \in Workers |-> 0]
    /\ sync_calls = [w \in Workers |-> 0]
    /\ sync_held = [w \in Workers |-> FALSE]

NoTime == [set |-> FALSE]

InitMonitor ==
    /\ restart_count = 0
    /\ last_restart_time = NoTime
    /\ last_check = NoTime
    /\ restart_log = <<>>

InitMetrics ==
    /\ perf_len = 0
    /\ error_count = 0
    /\ recorded_total = 0

InitMigration ==
    /\ json_rows = [t \in {"tp_names", "professors"} |-> [k \in {"k1", "k2"} |-> "absent"]]
    /\ db_rows = [t \in {"tp_names", "professors"} |-> {}]

\* Monday 1 September 2025, the first day of the generated calendar.
InitWeek ==
    /\ today = [year |-> 2025, ordinal |-> 244]
    /\ week_out = [routine |-> "none"]

InitFind ==
    /\ fw_label = "Semaine 36 A"
    /\ fw_calendar = <<>>
    /\ fw_out = [routine |-> "none"]

InitTime ==
    /\ tm_input = <<>>
    /\ tm_out = [called |-> FALSE]

InitName ==
    /\ np_input = <<>>
    /\ np_out = [called |-> FALSE]

InitGrid ==
    /\ grid_builder = "CourseGridService"
    /\ grid_courses = <<>>
    /\ weekly_grid = [day \in {"Lundi", "Mardi"} |->
                         [label \in {"8h-9h", "9h-10h", "10h-11h"} |-> <<>>]]

InitCustomRoom ==
    /\ file_custom_rooms = {}
    /\ db_custom_courses = <<>>

\* The request threads of one process and the value of a lock nobody holds.
MetricsThreads == {1, 2}

NoThread == 0

InitMetricsLock ==
    /\ metrics_lock = NoThread
    /\ metrics_stack = [t \in MetricsThreads |-> <<>>]
    /\ metrics_pc = [t \in MetricsThreads |-> "idle"]

InitDomain == repo_assigned = [c \in CourseIds |-> NoRoom]

\* data/.last_sync is written from outside the application; nothing in the
\* repository creates it.  NoSyncFile is the value of os.path.exists being
\* false.
NoSyncFile == -1

PlanWeeks == {"Semaine 37 A", "Semaine 38 B"}

NoWeekList == [present |-> FALSE]

InitPlan ==
    /\ last_sync_file = NoSyncFile
    /\ cs_last_sync_time = [w \in Workers |-> 0]
    /\ courses_cache = [w \in Workers |-> [k \in PlanWeeks |-> NoWeekList]]
    /\ sync_changes = 0

InitColor ==
    /\ hash_color = [w \in Workers |-> [p \in Professors |-> "#e57373"]]
    /\ color_returned = [p \in Professors |-> NoColor]

InitCalendar ==
    /\ cal_index = 1
    /\ cal_out = [routine |-> "none"]

InitAux == InitLock /\ InitMonitor /\ InitMetrics /\ InitMigration /\ InitWeek /\ InitFind /\ InitTime /\ InitName /\ InitGrid /\ InitCustomRoom /\ InitMetricsLock /\ InitDomain /\ InitPlan /\ InitColor /\ InitCalendar

InitAuxButCalendar ==
    /\ InitLock
    /\ InitMonitor
    /\ InitMetrics
    /\ InitMigration
    /\ InitWeek
    /\ InitFind
    /\ InitTime
    /\ InitName
    /\ InitGrid
    /\ InitCustomRoom
    /\ InitMetricsLock
    /\ InitDomain
    /\ InitPlan
    /\ InitColor

InitAuxButColor ==
    /\ InitLock
    /\ InitMonitor
    /\ InitMetrics
    /\ InitMigration
    /\ InitWeek
    /\ InitFind
    /\ InitTime
    /\ InitName
    /\ InitGrid
    /\ InitCustomRoom
    /\ InitMetricsLock
    /\ InitDomain
    /\ InitPlan
    /\ InitCalendar

InitAuxButGrid ==
    /\ InitLock
    /\ InitMonitor
    /\ InitMetrics
    /\ InitMigration
    /\ InitWeek
    /\ InitFind
    /\ InitTime
    /\ InitName
    /\ InitCustomRoom
    /\ InitMetricsLock
    /\ InitDomain
    /\ InitPlan
    /\ InitColor
    /\ InitCalendar

InitAuxButName ==
    /\ InitLock
    /\ InitMonitor
    /\ InitMetrics
    /\ InitMigration
    /\ InitWeek
    /\ InitFind
    /\ InitTime
    /\ InitGrid
    /\ InitCustomRoom
    /\ InitMetricsLock
    /\ InitDomain
    /\ InitPlan
    /\ InitColor
    /\ InitCalendar

InitAuxButTime ==
    /\ InitLock
    /\ InitMonitor
    /\ InitMetrics
    /\ InitMigration
    /\ InitWeek
    /\ InitFind
    /\ InitName
    /\ InitGrid
    /\ InitCustomRoom
    /\ InitMetricsLock
    /\ InitDomain
    /\ InitPlan
    /\ InitColor
    /\ InitCalendar

InitAuxButFind ==
    /\ InitLock
    /\ InitMonitor
    /\ InitMetrics
    /\ InitMigration
    /\ InitWeek
    /\ InitTime
    /\ InitName
    /\ InitGrid
    /\ InitCustomRoom
    /\ InitMetricsLock
    /\ InitDomain
    /\ InitPlan
    /\ InitColor
    /\ InitCalendar

InitAuxButWeek ==
    /\ InitLock
    /\ InitMonitor
    /\ InitMetrics
    /\ InitMigration
    /\ InitFind
    /\ InitTime
    /\ InitName
    /\ InitGrid
    /\ InitCustomRoom
    /\ InitMetricsLock
    /\ InitDomain
    /\ InitPlan
    /\ InitColor
    /\ InitCalendar

Init == InitAssign /\ InitData /\ InitCache /\ InitRate /\ InitBuild /\ InitAux

\* ------------------------------------------------------- ScheduleManager
\* TPManagementService.get_custom_courses: the service instance's own list,
\* read from the file once, when the service was constructed.
get_custom_courses(w) == custom_courses[w]

\* load_data: every file is re-read, except the custom courses, which are
\* taken from the TPManagementService instance (tp_list is what
\* get_custom_courses returns at that point of the handler).  The files are
\* read as they are at the end of the step.
load_data(w, tp_list) ==
    /\ room_assignments' = [room_assignments EXCEPT ![w] = file_assignments']
    /\ canonical_schedules' = [canonical_schedules EXCEPT ![w] = file_canonical']
    /\ prof_data' = [prof_data EXCEPT ![w] = file_prof_data']
    /\ rooms' = [rooms EXCEPT ![w] = RoomsFile]
    /\ custom_courses' = [custom_courses EXCEPT ![w] = tp_list]

\* ScheduleManager.assign_room: the result (TRUE when the room was recorded).
sm_assign_room_ok(w, course_id, room_id) ==
    ~check_room_conflict(course_id, room_id, get_all_courses(w))

\* ScheduleDataService.assign_room_to_course: read the file, set one key,
\* write the file.
assign_room_to_course(course_id, room_id) ==
    [file_assignments EXCEPT ![course_id] = room_id]

\* ------------------------------------------------ the scenario observer
\* The end-to-end scenario for ScenarioA, ScenarioB and ScenarioRoom:
\*   1  A was assigned the room (success)
\*   2  then B was refused the room
\*   3  then A's assignment was removed (success)
\* Any other assignment, removal, mode switch or migration starts over.
ScenarioA == "c1"

ScenarioB == "c2"

ScenarioRoom == "A101"

StartMin(c) == time_to_minutes(CourseTable[c].start_time)

EndMin(c) == time_to_minutes(CourseTable[c].end_time)

\* Two distinct courses of the same week and day that share a minute.
Overlapping ==
    [a \in CourseIds, b \in CourseIds |->
        /\ a # b
        /\ CourseTable[a].week_name = CourseTable[b].week_name
        /\ CourseTable[a].day = CourseTable[b].day
        /\ \E m \in StartMin(a)..(EndMin(a) - 1) : StartMin(b) <= m /\ m < EndMin(b)]

\* No course overlapping c, other than those of `but`, holds room r in the
\* persisted mapping.
FreeInFile(c, r, but) ==
    \A d \in CourseIds \ ({c} \cup but) : Overlapping[c, d] => file_assignments[d] # r

ObserveAssign(course_id, room_id, ok) ==
    IF course_id = ScenarioA /\ room_id = ScenarioRoom
    THEN (IF ok THEN (IF FreeInFile(course_id, room_id, {}) THEN 1 ELSE 0) ELSE e2e)
    ELSE IF course_id = ScenarioB /\ room_id = ScenarioRoom
    THEN (IF ok THEN 0 ELSE IF e2e = 1 THEN 2 ELSE e2e)
    ELSE (IF ok THEN 0 ELSE e2e)

ObserveUnassign(course_id) ==
    IF course_id = ScenarioA /\ e2e \in {2, 3} THEN 3 ELSE 0

\* ------------------------------------------------------- RoomController
\* assign_room with a room_id.  The handler checks the conflict (detailed),
\* calls ScheduleManager.assign_room and, on success, force-syncs and clears
\* the worker's occupied-rooms cache.  The trailing
\* data_service.sync_room_assignments_to_db call names a method that
\* ScheduleDataService does not define: it raises, the handler logs and
\* swallows the error, and the database rows stay as they were.
assign_room(w, course_id, room_id) ==
    \E ok \in {~check_room_conflict_detailed(course_id, room_id, get_all_courses(w))
                   /\ sm_assign_room_ok(w, course_id, room_id)} :
        /\ resp' = Resp("assign_room", w, course_id, room_id, ok, ok,
                        IF ok THEN "force_sync_data" ELSE "none")
        /\ e2e' = ObserveAssign(course_id, room_id, ok)
        /\ UNCHANGED <<rateVars, auxVars>>
        /\ IF ok
           THEN /\ file_assignments' = assign_room_to_course(course_id, room_id)
                /\ UNCHANGED <<file_canonical, file_prof_data>>
                /\ load_data(w, get_custom_courses(w))
                /\ occupied_rooms_cache' = [occupied_rooms_cache EXCEPT ![w] = EmptyCache]
           ELSE UNCHANGED <<file_assignments, room_assignments, file_canonical,
                            canonical_schedules, file_prof_data, prof_data, rooms,
                            custom_courses, occupied_rooms_cache>>
        /\ UNCHANGED <<use_database, db_assigned, file_custom_courses, file_tp_names,
                       file_prof_id_mapping,
                       usec, now, flask_cache, cache_ext, last_query>>

\* assign_room with an empty room_id: the entry is dropped from the worker's
\* own mapping, which save_assignments then writes out whole, before the
\* force-sync; the answer is success whether or not an entry was found.
unassign_room(w, course_id) ==
    LET found == room_assignments[w][course_id] # NoRoom
    IN  /\ resp' = Resp("unassign_room", w, course_id, NoRoom, TRUE, found,
                        IF found THEN "force_sync_data" ELSE "none")
        /\ e2e' = ObserveUnassign(course_id)
        /\ UNCHANGED <<rateVars, auxVars>>
        /\ IF found
           THEN /\ file_assignments' = [room_assignments[w] EXCEPT ![course_id] = NoRoom]
                /\ UNCHANGED <<file_canonical, file_prof_data>>
                /\ load_data(w, get_custom_courses(w))
           ELSE UNCHANGED <<file_assignments, room_assignments, file_canonical,
                            canonical_schedules, file_prof_data, prof_data, rooms,
                            custom_courses>>
        /\ UNCHANGED <<use_database, db_assigned, file_custom_courses, file_tp_names,
                       file_prof_id_mapping,
                       usec, cacheVars>>

\* ScheduleManager.force_sync_data, as the read endpoints run it
\* (professor_schedule, get_tp_names, get_free_rooms).
force_sync_data(w) ==
    /\ UNCHANGED <<file_assignments, file_canonical, file_prof_data>>
    /\ load_data(w, get_custom_courses(w))
    /\ resp' = Resp("force_sync_data", w, "", "", TRUE, FALSE, "force_sync_data")
    /\ UNCHANGED <<e2e, use_database, db_assigned, file_custom_courses, file_tp_names,
                       file_prof_id_mapping,
                   usec, cacheVars, rateVars, auxVars>>

\* ---------------------------------------------------- PlanningController
switch_to_json(w) ==
    /\ use_database[w]
    /\ use_database' = [use_database EXCEPT ![w] = FALSE]
    /\ resp' = Resp("switch_to_json", w, "", "", TRUE, FALSE, "none")
    /\ e2e' = 0
    /\ UNCHANGED <<file_assignments, room_assignments, db_assigned, dataVars, cacheVars,
                   rateVars, auxVars>>

switch_to_database(w) ==
    /\ ~use_database[w]
    /\ use_database' = [use_database EXCEPT ![w] = TRUE]
    /\ resp' = Resp("switch_to_database", w, "", "", TRUE, FALSE, "none")
    /\ e2e' = 0
    /\ UNCHANGED <<file_assignments, room_assignments, db_assigned, dataVars, cacheVars,
                   rateVars, auxVars>>

\* scripts/full_migration.py: the tables are dropped and refilled from the
\* JSON data, every course row taking the room the mapping file records.
run_full_migration ==
    /\ db_assigned' = file_assignments
    /\ resp' = Resp("run_full_migration", 0, "", "", TRUE, FALSE, "none")
    /\ e2e' = 0
    /\ UNCHANGED <<file_assignments, room_assignments, use_database, dataVars, cacheVars,
                   rateVars, auxVars>>

Next ==
    \/ \E w \in Workers, c \in CourseIds, r \in Rooms : assign_room(w, c, r)
    \/ \E w \in Workers, c \in CourseIds : unassign_room(w, c)
    \/ \E w \in Workers : force_sync_data(w)
    \/ \E w \in Workers : switch_to_json(w)
    \/ \E w \in Workers : switch_to_database(w)
    \/ run_full_migration

Spec == Init /\ [][Next]_vars

\* ------------------------------------------------- occupied-rooms caching
\* CacheService._cache_ttl, in seconds.
CacheTTL == 3

\* The timeout the handler passes to cache.set, in seconds.
FlaskCacheTimeout == 60

\* The instants, in seconds after start, at which requests arrive: inside
\* the TTL, at the TTL, and at and after the Flask-level timeout.
TimePoints == {2, 3, 60, 63}

\* The courses whose occupied rooms are asked for.
QueryCourses == {"c2"}

\* The courses whose room is changed while the queries run.
CacheAssignCourses == {"c1"}

\* CacheService.get_occupied_rooms_from_cache: the entry, or None.
get_occupied_rooms_from_cache(w, c) ==
    IF /\ occupied_rooms_cache[w][c].present
       /\ now - occupied_rooms_cache[w][c].timestamp < CacheTTL
    THEN occupied_rooms_cache[w][c]
    ELSE NoCacheEntry

\* CacheService.set_occupied_rooms_cache
set_occupied_rooms_cache(w, c, rooms_list) ==
    [occupied_rooms_cache EXCEPT
        ![w][c] = [present |-> TRUE, rooms |-> rooms_list, timestamp |-> now]]

\* The courses RoomAPIService.get_occupied_rooms reads: get_all_courses()
\* right after force_sync_data reloaded the worker's mapping from the file.
synced_all_courses(w) ==
    IF use_database[w] THEN DatabaseService_get_all_courses
    ELSE data_service_get_all_courses(file_assignments)

\* The loop of RoomAPIService.get_occupied_rooms over all_courses.
compute_occupied_rooms(course_id, all_courses) ==
    LET cur == all_courses[CHOOSE i \in FindCourse(course_id, all_courses) :
                   \A j \in FindCourse(course_id, all_courses) : i <= j]
    IN  {all_courses[i].assigned_room :
            i \in {j \in 1..Len(all_courses) :
                    /\ all_courses[j].course_id # course_id
                    /\ all_courses[j].assigned_room # NoRoom
                    /\ all_courses[j].week_name = cur.week_name
                    /\ all_courses[j].day = cur.day
                    /\ times_overlap(cur.start_time, cur.end_time,
                                     all_courses[j].start_time,
                                     all_courses[j].end_time)}}

\* The dictionary RoomAPIService.get_occupied_rooms returns; computed_at is
\* the time the room set in it was computed (not part of the payload).
service_result(w, c) ==
    IF FindCourse(c, synced_all_courses(w)) = {}
    THEN [occupied_rooms |-> {}, from_cache |-> "absent", computed_at |-> now]
    ELSE IF get_occupied_rooms_from_cache(w, c).present
    THEN [occupied_rooms |-> get_occupied_rooms_from_cache(w, c).rooms,
          from_cache |-> "true",
          computed_at |-> get_occupied_rooms_from_cache(w, c).timestamp]
    ELSE [occupied_rooms |-> compute_occupied_rooms(c, synced_all_courses(w)),
          from_cache |-> "false",
          computed_at |-> now]

\* cache.get(cache_key) on app.extensions['cache']: the stored result, or
\* None.  The registry dict has no such key; the cache object drops an entry
\* once its timeout has passed.
flask_cache_get(w, c) ==
    IF /\ cache_ext = "cache_object"
       /\ flask_cache[w][c].present
       /\ now < flask_cache[w][c].stored_at + FlaskCacheTimeout
    THEN flask_cache[w][c]
    ELSE NoCacheEntry

\* The times at which the results worker w holds for course c were computed.
StoredComputedAt(w, c) ==
    (IF occupied_rooms_cache[w][c].present
     THEN {occupied_rooms_cache[w][c].timestamp} ELSE {})
    \cup (IF flask_cache[w][c].present
          THEN {flask_cache[w][c].result.computed_at} ELSE {})

\* The answer, with what the observer notes about the request: whether the
\* previous request for the course was served less than CacheTTL ago
\* (prev_within_ttl) and whether the worker held results for the course, all at least CacheTTL old
\* (stored_expired).
OccupiedResp(w, c, status, result) ==
    [op |-> "get_occupied_rooms", worker |-> w, course_id |-> c, status |-> status,
     occupied_rooms |-> result.occupied_rooms, from_cache |-> result.from_cache,
     computed_at |-> result.computed_at, served_at |-> now,
     prev_within_ttl |-> last_query[c].asked /\ now - last_query[c].at < CacheTTL,
     stored_expired |-> /\ StoredComputedAt(w, c) # {}
                        /\ \A t \in StoredComputedAt(w, c) : now - t >= CacheTTL]

\* RoomController.get_occupied_rooms.  On a hit of the Flask-level cache the
\* stored dictionary is returned as it was stored.  On a miss the service runs
\* (force-sync, CacheService lookup, computation) and cache.set stores its
\* result for 60 s; on the registry dict cache.set raises AttributeError,
\* which the handler does not catch: the request ends in a 500.
get_occupied_rooms(w, c) ==
    /\ last_query' = [last_query EXCEPT ![c] = [asked |-> TRUE, at |-> now]]
    /\ UNCHANGED <<file_assignments, file_canonical, file_prof_data, use_database,
                   db_assigned, e2e, file_custom_courses, file_tp_names,
                   file_prof_id_mapping, usec, now,
                   cache_ext, rateVars, auxVars>>
    /\ IF flask_cache_get(w, c).present
       THEN /\ resp' = OccupiedResp(w, c, "200", flask_cache_get(w, c).result)
            /\ UNCHANGED <<room_assignments, canonical_schedules, prof_data, rooms,
                           custom_courses, occupied_rooms_cache, flask_cache>>
       ELSE /\ load_data(w, get_custom_courses(w))
            /\ occupied_rooms_cache' =
                   IF service_result(w, c).from_cache = "false"
                   THEN set_occupied_rooms_cache(w, c, service_result(w, c).occupied_rooms)
                   ELSE occupied_rooms_cache
            /\ IF cache_ext = "cache_object"
               THEN /\ flask_cache' = [flask_cache EXCEPT ![w][c] =
                            [present |-> TRUE, stored_at |-> now,
                             result |-> service_result(w, c)]]
                    /\ resp' = OccupiedResp(w, c, "200", service_result(w, c))
               ELSE /\ UNCHANGED flask_cache
                    /\ resp' = OccupiedResp(w, c, "500",
                                   [occupied_rooms |-> {}, from_cache |-> "absent",
                                    computed_at |-> now])

\* Time passes.
Tick ==
    /\ \E t \in TimePoints : now < t /\ now' = t
    /\ UNCHANGED <<assignVars, resp, e2e, dataVars, occupied_rooms_cache, flask_cache,
                   cache_ext, last_query, rateVars, auxVars>>

NextCache ==
    \/ \E w \in Workers, c \in QueryCourses : get_occupied_rooms(w, c)
    \/ \E w \in Workers, c \in CacheAssignCourses, r \in Rooms : assign_room(w, c, r)
    \/ \E w \in Workers, c \in CacheAssignCourses : unassign_room(w, c)
    \/ \E w \in Workers : switch_to_json(w)
    \/ Tick

SpecCache == Init /\ [][NextCache]_vars

\* ----------------------------------------------------------- rate limiting
\* is_rate_limited's default window, in seconds.
Window == 3600

\* The length of a block, in seconds.
BlockSeconds == 900

\* The limits init_app passes: 100 for the web interface, 200 when the
\* endpoint name contains 'api'; scaled down, web below API.
WebLimit == 1

ApiLimit == 2

\* The instants, in seconds after start, at which requests arrive.
RateTimePoints == {2700, 3600}

\* Flask endpoint names ("<blueprint>.<view function>"), as character
\* sequences, with the kind of route each serves.
EpAdmin == <<"p", "l", "a", "n", "n", "i", "n", "g", ".", "a", "d", "m", "i", "n">>

EpApiWeeks == <<"p", "l", "a", "n", "n", "i", "n", "g", ".",
                "a", "p", "i", "_", "w", "e", "e", "k", "s">>

EpAssignRoom == <<"r", "o", "o", "m", "s", ".",
                  "a", "s", "s", "i", "g", "n", "_", "r", "o", "o", "m">>

Endpoints == {EpAdmin, EpApiWeeks, EpAssignRoom}

\* The routes served under /api.
ApiRoutes == {EpApiWeeks, EpAssignRoom}

\* Python's  sub in s  on strings.
Contains(sub, s) ==
    \E i \in 1..(Len(s) - Len(sub) + 1) : SubSeq(s, i, i + Len(sub) - 1) = sub

\* The limit security_before_request chooses for the endpoint.
limit_for(endpoint) ==
    IF Contains(<<"a", "p", "i">>, endpoint) THEN ApiLimit ELSE WebLimit

\* The list comprehension that drops the timestamps outside the window.
prune(timestamps) == SelectSeq(timestamps, LAMBDA t : t > now - Window)

block_active_inclusive(until) == now <= until

\* now < self.blocked_ips[key]
block_active(until) == now < until

over_limit_strict(request_count, limit) == request_count > limit

\* request_count >= limit
over_limit(request_count, limit) == request_count >= limit

\* What is_rate_limited does for key ip in worker w with the given limit:
\* the decision and the limiter's state afterwards.
is_rate_limited(w, ip, limit) ==
    LET kept    == prune(rl_requests[w][ip])
        blocked == blocked_ips[w][ip].blocked /\ block_active(blocked_ips[w][ip].until)
    IN  IF blocked
        THEN [limited |-> TRUE, requests |-> kept, block |-> blocked_ips[w][ip]]
        ELSE IF over_limit(Len(kept), limit)
        THEN [limited |-> TRUE, requests |-> kept,
              block |-> [blocked |-> TRUE, until |-> now + BlockSeconds]]
        ELSE [limited |-> FALSE, requests |-> Append(kept, now), block |-> NotBlocked]

\* The observer's count of the web requests of ip that worker w let through
\* in the window (e - Window, e], and the same for the API requests.
WebPassedInWindow(w, ip, e) ==
    Len(SelectSeq(passed[w][ip].web, LAMBDA t : e - Window < t /\ t <= e))

ApiPassedInWindow(w, ip, e) ==
    Len(SelectSeq(passed[w][ip].api, LAMBDA t : e - Window < t /\ t <= e))

PassedInWindow(w, ip, e) == WebPassedInWindow(w, ip, e) + ApiPassedInWindow(w, ip, e)

\* The observer's limit episode: a rejection outside any open episode is a
\* rejection for reaching the limit and opens one at that time; the first
\* request let through once BlockSeconds have passed closes it.
EpisodeOpen(w, ip) ==
    limit_hit[w][ip].hit /\ now < limit_hit[w][ip].at + BlockSeconds

ObserveLimit(w, ip, limited) ==
    IF EpisodeOpen(w, ip) THEN limit_hit[w][ip]
    ELSE IF limited THEN [hit |-> TRUE, at |-> now]
    ELSE NoLimitHit

RateResp(w, ip, endpoint, limited) ==
    [op |-> "request", worker |-> w, ip |-> ip, endpoint |-> endpoint,
     limit |-> limit_for(endpoint), status |-> IF limited THEN "429" ELSE "200",
     at |-> now, prev_hit |-> limit_hit[w][ip],
     window_count |-> PassedInWindow(w, ip, now)]

\* security_before_request, for a request of ip to endpoint served by worker
\* w: abort(429) when the limiter says so.
security_before_request(w, ip, endpoint) ==
    \E d \in {is_rate_limited(w, ip, limit_for(endpoint))} :
        /\ rl_requests' = [rl_requests EXCEPT ![w][ip] = d.requests]
        /\ blocked_ips' = [blocked_ips EXCEPT ![w][ip] = d.block]
        /\ passed' = IF d.limited THEN passed
                     ELSE IF endpoint \in ApiRoutes
                     THEN [passed EXCEPT ![w][ip].api = Append(@, now)]
                     ELSE [passed EXCEPT ![w][ip].web = Append(@, now)]
        /\ limit_hit' = [limit_hit EXCEPT ![w][ip] = ObserveLimit(w, ip, d.limited)]
        /\ resp' = RateResp(w, ip, endpoint, d.limited)
        /\ UNCHANGED <<assignVars, e2e, dataVars, cacheVars, auxVars>>

TickRate ==
    /\ \E t \in RateTimePoints : now < t /\ now' = t
    /\ UNCHANGED <<assignVars, resp, e2e, dataVars, occupied_rooms_cache, flask_cache,
                   cache_ext, last_query, rateVars, auxVars>>

NextRate ==
    \/ \E w \in Workers, ip \in IPs, ep \in Endpoints : security_before_request(w, ip, ep)
    \/ TickRate

\* The limiter never looks at the cache extension: one build stands for both.
InitRateSpec ==
    InitAssign /\ InitData /\ InitCache /\ InitRate /\ cache_ext = "cache_object" /\ InitAux

SpecRate == InitRateSpec /\ [][NextRate]_vars

\* ------------------------------------------- custom courses and TP names
\* The wall clock is read once per created course.  Between two readings it
\* advances by a whole number of microseconds, possibly none.
MaxUsec == 1

MaxCustom == 2

ClockAdvance == {0, 1}

Days == {"Lundi", "Mardi"}

CustomWeek == "Semaine 37 A"

\* strftime('%Y%m%d%H%M%S%f') behind the custom_ prefix: one identifier per
\* microsecond.
CustomIdNames == <<"custom_0", "custom_1", "custom_2", "custom_3">>

custom_course_id(t) == CustomIdNames[t + 1]

CustomIds == {custom_course_id(t) : t \in 0..MaxUsec}

TPCourseIds == {"c1"}

TPNames == {"TP Reseaux"}

\* The courses the room endpoints are asked about next to the course
\* endpoints.
CourseAssignIds == {"c1"}

RECURSIVE SumTo(_, _)
SumTo(adv, k) == IF k = 0 THEN 0 ELSE adv[k] + SumTo(adv, k - 1)

\* Index of the first course of the list with the given id, 0 when none.
FirstIndexOf(list, course_id) ==
    IF \E i \in 1..Len(list) : list[i].course_id = course_id
    THEN CHOOSE i \in 1..Len(list) :
            /\ list[i].course_id = course_id
            /\ \A j \in 1..(i - 1) : list[j].course_id # course_id
    ELSE 0

RemoveAt(list, i) == [j \in 1..(Len(list) - 1) |-> IF j < i THEN list[j] ELSE list[j + 1]]

\* ScheduleManager.add_custom_course: the course gets the id of the clock
\* reading t and is appended to the worker's list (which save_custom_courses
\* then writes out whole).
sm_add_custom_course(list, week_name, day, t) ==
    Append(list, [course_id |-> custom_course_id(t), week_name |-> week_name, day |-> day])

\* ScheduleManager.move_custom_course on the worker's list.
sm_move_custom_course(list, course_id, new_day, new_week) ==
    [list EXCEPT ![FirstIndexOf(list, course_id)] =
        [course_id |-> course_id, week_name |-> new_week, day |-> new_day]]

\* ScheduleManager.reload_data: load_data, then the occupied-rooms cache of
\* a CacheService instance created on the spot is cleared, which leaves the
\* worker's own cache as it was.
reload_data(w, tp_list) == load_data(w, tp_list)

\* POST /api/courses/add_custom
add_custom_course(w, day) ==
    /\ usec <= MaxUsec
    /\ Len(custom_courses[w]) < MaxCustom
    /\ \E new_list \in {sm_add_custom_course(custom_courses[w], CustomWeek, day, usec)} :
        /\ file_custom_courses' = new_list
        /\ UNCHANGED <<file_assignments, file_canonical, file_prof_data>>
        /\ reload_data(w, new_list)
    /\ usec' \in {usec + d : d \in ClockAdvance}
    /\ resp' = Resp("add_custom_course", w, custom_course_id(usec), "", TRUE, TRUE,
                    "reload_data")
    /\ UNCHANGED <<use_database, db_assigned, e2e, file_tp_names, file_prof_id_mapping,
                   cacheVars, rateVars, auxVars>>

\* POST /api/courses/move
move_custom_course(w, course_id, new_day) ==
    LET found == FirstIndexOf(custom_courses[w], course_id) # 0
    IN  /\ resp' = Resp("move_custom_course", w, course_id, "", found, found,
                        IF found THEN "reload_data" ELSE "none")
        /\ IF found
           THEN \E new_list \in {sm_move_custom_course(custom_courses[w], course_id,
                                                       new_day, CustomWeek)} :
                    /\ file_custom_courses' = new_list
                    /\ UNCHANGED <<file_assignments, file_canonical, file_prof_data>>
                    /\ reload_data(w, new_list)
           ELSE UNCHANGED <<file_custom_courses, custom_courses, file_assignments,
                            room_assignments, file_canonical, canonical_schedules,
                            file_prof_data, prof_data, rooms>>
        /\ UNCHANGED <<use_database, db_assigned, e2e, file_tp_names, file_prof_id_mapping,
                       usec, cacheVars, rateVars, auxVars>>

\* The loop of duplicate_course over its (day, week) pairs, from pair i on:
\* pair i is created with the clock reading usec + adv[1] + .. + adv[i-1].
RECURSIVE duplicate_loop(_, _, _, _)
duplicate_loop(list, days, adv, i) ==
    IF i > Len(days) THEN list
    ELSE duplicate_loop(sm_add_custom_course(list, CustomWeek, days[i],
                                             usec + SumTo(adv, i - 1)),
                        days, adv, i + 1)

\* POST /api/courses/duplicate: one add_custom_course per (day, week) pair,
\* each writing the file, and no reload of any kind.
duplicate_course(w, days) ==
    /\ Len(custom_courses[w]) + Len(days) <= MaxCustom
    /\ \E adv \in [1..Len(days) -> ClockAdvance] :
        /\ usec + SumTo(adv, Len(days) - 1) <= MaxUsec
        /\ \E new_list \in {duplicate_loop(custom_courses[w], days, adv, 1)} :
            /\ custom_courses' = [custom_courses EXCEPT ![w] = new_list]
            /\ file_custom_courses' = new_list
        /\ usec' = usec + SumTo(adv, Len(days))
    /\ resp' = Resp("duplicate_course", w, "", "", TRUE, TRUE, "none")
    /\ UNCHANGED <<assignVars, e2e, file_canonical, canonical_schedules, file_prof_data,
                   prof_data, rooms, file_tp_names, file_prof_id_mapping, cacheVars,
                   rateVars, auxVars>>

\* POST /api/courses/delete: the first course with the id is popped from
\* the worker's list; a room recorded for it in the worker's mapping is
\* dropped and the mapping written out whole; the worker's list is written
\* out whole.  No reload of any kind.
delete_course(w, course_id) ==
    LET i == FirstIndexOf(custom_courses[w], course_id)
        has_room == course_id \in CourseIds /\ room_assignments[w][course_id] # NoRoom
    IN  /\ resp' = Resp("delete_course", w, course_id, "", i # 0, i # 0, "none")
        /\ IF i # 0
           THEN /\ \E new_list \in {RemoveAt(custom_courses[w], i)} :
                    /\ custom_courses' = [custom_courses EXCEPT ![w] = new_list]
                    /\ file_custom_courses' = new_list
                /\ IF has_room
                   THEN \E mapping \in {[room_assignments[w] EXCEPT ![course_id] = NoRoom]} :
                            /\ room_assignments' = [room_assignments EXCEPT ![w] = mapping]
                            /\ file_assignments' = mapping
                            /\ e2e' = 0
                   ELSE UNCHANGED <<room_assignments, file_assignments, e2e>>
           ELSE UNCHANGED <<custom_courses, file_custom_courses, room_assignments,
                            file_assignments, e2e>>
        /\ UNCHANGED <<use_database, db_assigned, file_canonical, canonical_schedules,
                       file_prof_data, prof_data, rooms, file_tp_names,
                       file_prof_id_mapping, usec, cacheVars, rateVars, auxVars>>

\* POST /api/courses/update_tp_name: ScheduleManager.save_tp_name reads the
\* file, sets one key and writes the file.  No reload of any kind.
update_tp_name(w, course_id, tp_name) ==
    /\ file_tp_names' = [file_tp_names EXCEPT ![course_id] = tp_name]
    /\ resp' = Resp("update_tp_name", w, course_id, "", TRUE, TRUE, "none")
    /\ UNCHANGED <<assignVars, e2e, file_custom_courses, custom_courses, file_canonical,
                   canonical_schedules, file_prof_data, prof_data, rooms,
                   file_prof_id_mapping, usec, cacheVars, rateVars, auxVars>>

\* POST /api/courses/delete_tp_name: the key is dropped from the file when
\* it is there (the answer is success either way), then force_sync_data.
delete_tp_name(w, course_id) ==
    /\ file_tp_names' = [file_tp_names EXCEPT ![course_id] = NoTPName]
    /\ UNCHANGED <<file_assignments, file_canonical, file_prof_data>>
    /\ load_data(w, get_custom_courses(w))
    /\ resp' = Resp("delete_tp_name", w, course_id, "", TRUE,
                    file_tp_names[course_id] # NoTPName, "force_sync_data")
    /\ UNCHANGED <<use_database, db_assigned, e2e, file_custom_courses,
                   file_prof_id_mapping, usec, cacheVars, rateVars, auxVars>>

DuplicateDays == {<<"Lundi">>, <<"Lundi", "Mardi">>}

NextCourses ==
    \/ \E w \in Workers, day \in Days : add_custom_course(w, day)
    \/ \E w \in Workers, c \in CustomIds, day \in Days : move_custom_course(w, c, day)
    \/ \E w \in Workers, days \in DuplicateDays : duplicate_course(w, days)
    \/ \E w \in Workers, c \in CustomIds : delete_course(w, c)
    \/ \E w \in Workers, c \in TPCourseIds, n \in TPNames : update_tp_name(w, c, n)
    \/ \E w \in Workers, c \in TPCourseIds : delete_tp_name(w, c)
    \/ \E w \in Workers, c \in CourseAssignIds, r \in Rooms : assign_room(w, c, r)
    \/ \E w \in Workers, c \in CourseAssignIds : unassign_room(w, c)
    \/ \E w \in Workers : force_sync_data(w)

InitBase == InitAssign /\ InitData /\ InitCache /\ InitRate /\ cache_ext = "cache_object"

InitCourses == InitBase /\ InitAux

SpecCourses == InitCourses /\ [][NextCourses]_vars

\* ------------------------------------------------------------- professors
ColorInputs == PROF_COLORS \cup {"red"}

ScheduleInputs == {EmptySchedule, SomeCourses}

\* POST /professors/add.  ScheduleManager.add_professor re-reads the
\* canonical schedules whatever the service answered; force_sync_data is
\* not called.
add_professor(w, prof_name) ==
    LET exists == canonical_schedules[w][prof_name] # NoProfessor
    IN  /\ resp' = Resp("add_professor", w, prof_name, "", ~exists, ~exists, "none")
        /\ IF exists
           THEN UNCHANGED <<file_canonical, file_prof_id_mapping>>
           ELSE /\ file_canonical' =
                        [canonical_schedules[w] EXCEPT ![prof_name] = EmptySchedule]
                /\ file_prof_id_mapping' = file_prof_id_mapping \cup {prof_name}
        /\ canonical_schedules' = [canonical_schedules EXCEPT ![w] = file_canonical']
        /\ UNCHANGED <<assignVars, e2e, file_custom_courses, custom_courses, file_prof_data,
                       prof_data, rooms, file_tp_names, usec, cacheVars, rateVars, auxVars>>

\* POST /professors/delete: force_sync_data follows a successful deletion.
delete_professor(w, prof_name) ==
    LET found == canonical_schedules[w][prof_name] # NoProfessor
    IN  /\ resp' = Resp("delete_professor", w, prof_name, "", found, found,
                        IF found THEN "force_sync_data" ELSE "none")
        /\ IF found
           THEN /\ file_canonical' =
                        [canonical_schedules[w] EXCEPT ![prof_name] = NoProfessor]
                /\ UNCHANGED <<file_assignments, file_prof_data>>
                /\ load_data(w, get_custom_courses(w))
           ELSE /\ canonical_schedules' = [canonical_schedules EXCEPT ![w] = file_canonical]
                /\ UNCHANGED <<file_canonical, file_assignments, room_assignments,
                               file_prof_data, prof_data, rooms, custom_courses>>
        /\ UNCHANGED <<use_database, db_assigned, e2e, file_custom_courses, file_tp_names,
                       file_prof_id_mapping, usec, cacheVars, rateVars, auxVars>>

\* POST /professors/update_color.  ScheduleManager.update_prof_color
\* re-reads prof_data whatever the service answered; force_sync_data is not
\* called.
update_prof_color(w, prof_name, color) ==
    LET valid == color \in PROF_COLORS
    IN  /\ resp' = Resp("update_prof_color", w, prof_name, "", valid, valid, "none")
        /\ IF valid
           THEN file_prof_data' = [prof_data[w] EXCEPT ![prof_name] = color]
           ELSE UNCHANGED file_prof_data
        /\ prof_data' = [prof_data EXCEPT ![w] = file_prof_data']
        /\ UNCHANGED <<assignVars, e2e, file_custom_courses, custom_courses, file_canonical,
                       canonical_schedules, rooms, file_tp_names, file_prof_id_mapping,
                       usec, cacheVars, rateVars, auxVars>>

\* POST /professors/<prof_name>/save_schedule: update_prof_schedule writes
\* the worker's canonical schedules out whole, then force_sync_data.
save_prof_schedule(w, prof_name, new_courses) ==
    /\ file_canonical' = [canonical_schedules[w] EXCEPT ![prof_name] = new_courses]
    /\ UNCHANGED <<file_assignments, file_prof_data>>
    /\ load_data(w, get_custom_courses(w))
    /\ resp' = Resp("save_prof_schedule", w, prof_name, "", TRUE, TRUE, "force_sync_data")
    /\ UNCHANGED <<use_database, db_assigned, e2e, file_custom_courses, file_tp_names,
                   file_prof_id_mapping, usec, cacheVars, rateVars, auxVars>>

\* Every state-mutating endpoint, as one worker serves them; the other
\* worker only re-reads.
MutationWorkers == {1}

NextMutations ==
    \/ \E w \in MutationWorkers, c \in CourseAssignIds, r \in Rooms : assign_room(w, c, r)
    \/ \E w \in MutationWorkers, c \in CourseAssignIds : unassign_room(w, c)
    \/ \E w \in MutationWorkers, day \in Days : add_custom_course(w, day)
    \/ \E w \in MutationWorkers, c \in CustomIds, day \in Days :
            move_custom_course(w, c, day)
    \/ \E w \in MutationWorkers, days \in DuplicateDays : duplicate_course(w, days)
    \/ \E w \in MutationWorkers, c \in CustomIds : delete_course(w, c)
    \/ \E w \in MutationWorkers, c \in TPCourseIds, n \in TPNames : update_tp_name(w, c, n)
    \/ \E w \in MutationWorkers, c \in TPCourseIds : delete_tp_name(w, c)
    \/ \E w \in MutationWorkers, p \in Professors : add_professor(w, p)
    \/ \E w \in MutationWorkers, p \in Professors : delete_professor(w, p)
    \/ \E w \in MutationWorkers, p \in Professors, color \in ColorInputs :
            update_prof_color(w, p, color)
    \/ \E w \in MutationWorkers, p \in Professors, s \in ScheduleInputs :
            save_prof_schedule(w, p, s)
    \/ \E w \in Workers : force_sync_data(w)

SpecMutations == InitCourses /\ [][NextMutations]_vars

\* ------------------------------------------------ the advisory sync lock
\* FileManagementService.force_sync_data_with_lock, step by step.  A worker
\* opens data/.sync_lock, notes start_time and polls a non-blocking
\* exclusive flock until it gets it or max_wait seconds have passed; either
\* way it then runs the reload callback once and returns True.  The flock
\* is released when the file is closed, on return.
max_wait == 5

LockTimePoints == {1, 5, 6}

\* The function is entered: the lock file is opened and the loop starts.
sync_begin(w) ==
    /\ sync_pc[w] = "idle"
    /\ sync_pc' = [sync_pc EXCEPT ![w] = "trying"]
    /\ sync_start' = [sync_start EXCEPT ![w] = now]
    /\ sync_calls' = [sync_calls EXCEPT ![w] = 0]
    /\ sync_held' = [sync_held EXCEPT ![w] = sync_lock # NoLock]
    /\ UNCHANGED <<sync_lock, assignVars, resp, e2e, dataVars, cacheVars, rateVars,
                   auxButLock>>

\* A flock that would be granted to every caller, whoever holds it.
sync_try_shared(w) ==
    /\ sync_pc[w] = "trying"
    /\ now - sync_start[w] < max_wait
    /\ sync_lock' = w
    /\ sync_pc' = [sync_pc EXCEPT ![w] = "locked"]
    /\ UNCHANGED <<sync_start, sync_calls, sync_held, assignVars, resp, e2e, dataVars,
                   cacheVars, rateVars,
                   auxButLock>>

\* One turn of the loop while time.time() - start_time < max_wait: the
\* flock is taken when it is free, otherwise the worker sleeps and comes
\* back.
sync_try(w) ==
    /\ sync_pc[w] = "trying"
    /\ now - sync_start[w] < max_wait
    /\ IF sync_lock = NoLock
       THEN /\ sync_lock' = w
            /\ sync_pc' = [sync_pc EXCEPT ![w] = "locked"]
       ELSE UNCHANGED <<sync_lock, sync_pc>>
    /\ UNCHANGED <<sync_start, sync_calls, sync_held, assignVars, resp, e2e, dataVars,
                   cacheVars, rateVars,
                   auxButLock>>

\* A loop that would keep waiting for the flock after max_wait.
sync_timeout_waiting(w) ==
    /\ sync_pc[w] = "trying"
    /\ now - sync_start[w] >= max_wait
    /\ sync_lock = NoLock
    /\ sync_pc' = [sync_pc EXCEPT ![w] = "unlocked"]
    /\ UNCHANGED <<sync_lock, sync_start, sync_calls, sync_held, assignVars, resp, e2e,
                   dataVars, cacheVars, rateVars,
                   auxButLock>>

\* The loop condition fails (the else branch of the while): the worker goes
\* on to the callback without the lock.
sync_timeout(w) ==
    /\ sync_pc[w] = "trying"
    /\ now - sync_start[w] >= max_wait
    /\ sync_pc' = [sync_pc EXCEPT ![w] = "unlocked"]
    /\ UNCHANGED <<sync_lock, sync_start, sync_calls, sync_held, assignVars, resp, e2e,
                   dataVars, cacheVars, rateVars,
                   auxButLock>>

SyncResp(w, ret) ==
    [op |-> "force_sync_data_with_lock", worker |-> w, returned |-> ret,
     callbacks |-> sync_calls[w] + 1, with_lock |-> sync_pc[w] = "locked",
     held_throughout |-> sync_held[w], waited |-> now - sync_start[w]]

\* reload_callback() (ScheduleManager.load_data) completes and the function
\* returns True; closing the lock file drops the flock the worker holds.
sync_reload(w) ==
    /\ sync_pc[w] \in {"locked", "unlocked"}
    /\ UNCHANGED <<file_assignments, file_canonical, file_prof_data>>
    /\ load_data(w, get_custom_courses(w))
    /\ sync_calls' = [sync_calls EXCEPT ![w] = @ + 1]
    /\ resp' = SyncResp(w, TRUE)
    /\ sync_pc' = [sync_pc EXCEPT ![w] = "idle"]
    /\ IF sync_pc[w] = "locked"
       THEN /\ sync_lock' = NoLock
            /\ sync_held' = [v \in Workers |-> FALSE]
       ELSE UNCHANGED <<sync_lock, sync_held>>
    /\ UNCHANGED <<sync_start, use_database, db_assigned, e2e, file_custom_courses,
                   file_tp_names, file_prof_id_mapping, usec, cacheVars, rateVars,
                   auxButLock>>

TickLock ==
    /\ \E t \in LockTimePoints : now < t /\ now' = t
    /\ UNCHANGED <<assignVars, resp, e2e, dataVars, occupied_rooms_cache, flask_cache,
                   cache_ext, last_query, rateVars, auxVars>>

NextLock ==
    \/ \E w \in Workers : sync_begin(w)
    \/ \E w \in Workers : sync_try(w)
    \/ \E w \in Workers : sync_timeout(w)
    \/ \E w \in Workers : sync_reload(w)
    \/ TickLock

SpecLock == InitCourses /\ [][NextLock]_vars

\* ------------------------------------------------------------ the monitor
\* monitor_app.py: AppMonitor checks the service every CHECK_INTERVAL
\* seconds and restarts it through the process manager when a check fails.
MAX_RESTARTS_PER_HOUR == 3

CHECK_INTERVAL == 60

RestartHour == 3600

MonitorTimePoints == {60, 120, 180, 3720, 3721, 3780, 3840, 7320, 7381}

\* reset_restart_counter: the counter after the call.
reset_restart_counter ==
    IF last_restart_time.set /\ now - last_restart_time.at > RestartHour
    THEN 0 ELSE restart_count

too_many_restarts_strict(count) == count > MAX_RESTARTS_PER_HOUR

\* restart_application, its first test.
too_many_restarts(count) == count >= MAX_RESTARTS_PER_HOUR

\* restart_application refuses: the counter is at its maximum and the last
\* restart is less than an hour old.
restart_refused(count) ==
    /\ too_many_restarts(count)
    /\ last_restart_time.set
    /\ now - last_restart_time.at < RestartHour

MonitorResp(needs_restart, restarted) ==
    [op |-> "run_health_check", at |-> now, needs_restart |-> needs_restart,
     restarted |-> restarted]

\* run_health_check at the current time, the three checks having answered
\* supervisor_ok, http_ok and memory_ok; commands_ok says whether the stop
\* and start commands of the process manager succeed.  The monitoring loop
\* sleeps CHECK_INTERVAL seconds between two checks.
run_health_check(supervisor_ok, http_ok, memory_ok, commands_ok) ==
    /\ last_check.set => now >= last_check.at + CHECK_INTERVAL
    /\ last_check' = [set |-> TRUE, at |-> now]
    /\ \E count \in {reset_restart_counter} :
        \E needs_restart \in {~supervisor_ok \/ ~http_ok \/ ~memory_ok} :
        \E restarted \in {needs_restart /\ ~restart_refused(count) /\ commands_ok} :
            /\ restart_count' = IF restarted THEN count + 1 ELSE count
            /\ last_restart_time' = IF restarted THEN [set |-> TRUE, at |-> now]
                                    ELSE last_restart_time
            /\ restart_log' = IF restarted THEN Append(restart_log, now) ELSE restart_log
            /\ resp' = MonitorResp(needs_restart, restarted)
    /\ UNCHANGED <<assignVars, e2e, dataVars, cacheVars, rateVars, auxButMonitor>>

TickMonitor ==
    /\ \E t \in MonitorTimePoints : now < t /\ now' = t
    /\ UNCHANGED <<assignVars, resp, e2e, dataVars, occupied_rooms_cache, flask_cache,
                   cache_ext, last_query, rateVars, auxVars>>

NextMonitor ==
    \/ \E supervisor_ok, http_ok, memory_ok, commands_ok \in BOOLEAN :
            run_health_check(supervisor_ok, http_ok, memory_ok, commands_ok)
    \/ TickMonitor

SpecMonitor == InitCourses /\ [][NextMonitor]_vars

\* ------------------------------------------------- metrics and /api/health
\* MetricsCollector keeps the recorded requests in a deque of bounded
\* length (1000 in the source, scaled down here) and the errors in
\* counters that are never trimmed.
PerfMaxLen == 10

MaxRecorded == 20

MaxErrors == 2

MemoryPercents == {50, 90, 91}

MemoryLimit == 90

ErrorRateLimit == 10

\* deque.append on a deque with maxlen: the length after the append.
deque_append_len(len) == IF len < PerfMaxLen THEN len + 1 ELSE PerfMaxLen

record_request ==
    /\ recorded_total < MaxRecorded
    /\ perf_len' = deque_append_len(perf_len)
    /\ recorded_total' = recorded_total + 1
    /\ UNCHANGED <<error_count, assignVars, resp, e2e, dataVars, cacheVars, rateVars,
                   auxButMetrics>>

record_error ==
    /\ error_count < MaxErrors
    /\ error_count' = error_count + 1
    /\ UNCHANGED <<perf_len, recorded_total, assignVars, resp, e2e, dataVars, cacheVars,
                   rateVars, auxButMetrics>>

Max(a, b) == IF a >= b THEN a ELSE b

\* get_system_metrics: total_requests is the length of the deque.
total_requests == perf_len

\* error_count / max(total_requests, 1) * 100 > 10, in exact arithmetic.
error_rate_degraded(errors, total) == errors * 100 > ErrorRateLimit * Max(total, 1)

health_status(memory_percent) ==
    IF memory_percent > MemoryLimit \/ error_rate_degraded(error_count, total_requests)
    THEN "degraded" ELSE "healthy"

\* GET /api/health
health_check(memory_percent) ==
    /\ resp' = [op |-> "health_check",
                status_code |-> IF health_status(memory_percent) = "healthy" THEN 200 ELSE 503,
                memory_percent |-> memory_percent, errors |-> error_count,
                recorded |-> recorded_total]
    /\ UNCHANGED <<metricsVars, assignVars, e2e, dataVars, cacheVars, rateVars,
                   auxButMetrics>>

NextMetrics ==
    \/ record_request
    \/ record_error
    \/ \E memory_percent \in MemoryPercents : health_check(memory_percent)

SpecMetrics == InitCourses /\ [][NextMetrics]_vars

\* ------------------------------------------------- JSON -> SQLite migration
\* Two of the migrated tables, each with a unique key column
\* (tp_names.course_id, professors.name) and one payload column.
MigratedTables == {"tp_names", "professors"}

MigKeys == {"k1", "k2"}

MigValues == {"v1", "v2"}

NoEntry == "absent"

\* The rows a migration derives from a JSON file: one per entry.
rows_from_json(file) == {[key |-> k, value |-> file[k]] : k \in {x \in MigKeys : file[x] # NoEntry}}

RowKeys(rows) == {r.key : r \in rows}

\* The application rewrites a JSON file: an entry is set or removed.
save_json_file(t, k, v) ==
    /\ json_rows[t][k] # v
    /\ json_rows' = [json_rows EXCEPT ![t][k] = v]
    /\ UNCHANGED <<db_rows, assignVars, resp, e2e, dataVars, cacheVars, rateVars,
                   auxButMigration>>

\* db.session.commit() of the rows added for one table: a row whose unique
\* key is already in the table raises IntegrityError.
commit_raises(table, added) == RowKeys(table) \cap RowKeys(added) # {}

\* _migrate_tp_names / _migrate_professors: add one row per entry, commit;
\* on any exception roll back and report 0.
migrate_table(table, file) ==
    IF commit_raises(table, rows_from_json(file))
    THEN [rows |-> table, count |-> 0]
    ELSE [rows |-> table \cup rows_from_json(file),
          count |-> Cardinality(rows_from_json(file))]

\* db.create_all() creates the missing tables and leaves existing ones.
create_all(tables) == tables

migrate_all_data ==
    /\ db_rows' = [t \in MigratedTables |->
                      migrate_table(create_all(db_rows)[t], json_rows[t]).rows]
    /\ resp' = [op |-> "migrate_all_data", before |-> db_rows, after |-> db_rows',
                files |-> json_rows,
                counters |-> [t \in MigratedTables |->
                                 migrate_table(create_all(db_rows)[t], json_rows[t]).count]]
    /\ UNCHANGED <<json_rows, assignVars, e2e, dataVars, cacheVars, rateVars,
                   auxButMigration>>

NextMigration ==
    \/ \E t \in MigratedTables, k \in MigKeys, v \in MigValues \cup {NoEntry} :
           save_json_file(t, k, v)
    \/ migrate_all_data

SpecMigration == InitCourses /\ [][NextMigration]_vars

\* ------------------------------------------------- academic weeks
Years == 2024..2027

\* date(year, 1, 1).isoweekday(), Monday = 1.
Jan1Weekday(year) == CASE year = 2024 -> 1 [] year = 2025 -> 3 [] year = 2026 -> 4
                       [] year = 2027 -> 5 [] OTHER -> 7

DaysInYear(year) == IF year = 2024 THEN 366 ELSE 365

\* The number of ISO weeks of a year: 53 when 1 January is a Thursday, or a
\* Wednesday in a leap year.
WeeksInYear(year) ==
    IF Jan1Weekday(year) = 4 \/ (DaysInYear(year) = 366 /\ Jan1Weekday(year) = 3)
    THEN 53 ELSE 52

isoweekday(d) == ((Jan1Weekday(d.year) - 1 + d.ordinal - 1) % 7) + 1

RawWeek(d) == (d.ordinal - isoweekday(d) + 10) \div 7

\* date.isocalendar()[1]
isocalendar_week(d) ==
    IF RawWeek(d) < 1 THEN WeeksInYear(d.year - 1)
    ELSE IF RawWeek(d) > WeeksInYear(d.year) THEN 1
    ELSE RawWeek(d)

DecimalDigits == <<"0", "1", "2", "3", "4", "5", "6", "7", "8", "9">>

\* f"{n}" for 0 <= n <= 99
Fmt(n) == IF n < 10 THEN DecimalDigits[n + 1]
          ELSE DecimalDigits[(n \div 10) + 1] \o DecimalDigits[(n % 10) + 1]

\* f"{n:02d}"
Fmt02(n) == IF n < 10 THEN "0" \o Fmt(n) ELSE Fmt(n)

\* f"Semaine {num} {type}"
WeekName(num, type) == "Semaine " \o num \o " " \o type

WeekType(is_type_A) == IF is_type_A THEN "A" ELSE "B"

\* The week names of generate_academic_calendar, in order: weeks 36..52
\* then 01..35, the type alternating from A.
CalendarName(i) ==
    IF i <= 17 THEN WeekName(Fmt(35 + i), WeekType(i % 2 = 1))
    ELSE WeekName(Fmt02(i - 17), WeekType(i % 2 = 1))

generate_academic_calendar == [i \in 1..52 |-> CalendarName(i)]

\* StudentService.generate_simple_academic_calendar yields the same names.
generate_simple_academic_calendar == generate_academic_calendar

\* WeekService.get_current_week_name
get_current_week_name(d, weeks_to_display) ==
    IF d.year = 2025 /\ isocalendar_week(d) >= 36
    THEN WeekName(Fmt(isocalendar_week(d)), WeekType((isocalendar_week(d) - 36) % 2 = 0))
    ELSE IF d.year = 2026 /\ isocalendar_week(d) <= 35
    THEN WeekName(Fmt02(isocalendar_week(d)),
                  WeekType((17 + isocalendar_week(d) - 1) % 2 = 0))
    ELSE weeks_to_display[1]

\* KiosqueService.get_current_week_name
kiosque_get_current_week_name(d) ==
    IF d.year = 2025 /\ isocalendar_week(d) >= 36
    THEN WeekName(Fmt(isocalendar_week(d)), WeekType((isocalendar_week(d) - 36) % 2 = 0))
    ELSE "Semaine 37 A"

\* week.startswith(f"Semaine {n} ") or week.startswith(f"Semaine {n:02d} "):
\* the prefix ends with the blank before the type.
week_matches(week, n) ==
    \E type \in {"A", "B"} : week = WeekName(Fmt(n), type) \/ week = WeekName(Fmt02(n), type)

NoWeek == "None"

\* StudentService.get_current_academic_week_name
get_current_academic_week_name(calendar, d) ==
    IF \E i \in 1..Len(calendar) : week_matches(calendar[i], isocalendar_week(d))
    THEN calendar[CHOOSE i \in 1..Len(calendar) :
                      /\ week_matches(calendar[i], isocalendar_week(d))
                      /\ \A j \in 1..(i - 1) : ~week_matches(calendar[j], isocalendar_week(d))]
    ELSE IF Len(calendar) > 0 THEN calendar[1] ELSE NoWeek

WeekRoutines == {"week_service", "kiosque", "student"}

current_week(routine, d) ==
    CASE routine = "week_service" -> get_current_week_name(d, generate_academic_calendar)
      [] routine = "kiosque" -> kiosque_get_current_week_name(d)
      [] OTHER -> get_current_academic_week_name(generate_simple_academic_calendar, d)

ask_current_week(routine) ==
    /\ week_out' = [routine |-> routine, name |-> current_week(routine, today)]
    /\ UNCHANGED <<today, assignVars, resp, e2e, dataVars, cacheVars, rateVars,
                   auxButWeek>>

NextWeek == \E routine \in WeekRoutines : ask_current_week(routine)

Dates == {d \in [year : Years, ordinal : 1..366] : d.ordinal <= DaysInYear(d.year)}

\* The routines are asked on any day of the modelled years.
InitWeekSpec ==
    /\ InitBase
    /\ InitAuxButWeek
    /\ today \in Dates
    /\ week_out = [routine |-> "none"]

SpecWeek == InitWeekSpec /\ [][NextWeek]_vars

\* ------------------------------------------------- find_week_info
MaxCalendarLen == 2

\* The week names of the searched lists, and one that no list carries.
FindNames == {"Semaine 36 A", "Semaine 37 B", "Semaine 38 A"}

FindLabels == FindNames \cup {"Semaine 99 Z"}

WeekEntry(name) == [name |-> name, full_name |-> name \o " (date)"]

FindCalendars ==
    UNION {[1..n -> {WeekEntry(name) : name \in FindNames}] : n \in 0..MaxCalendarLen}

None == [kind |-> "None"]

Found(week_info) == [kind |-> "entry", info |-> week_info]

HasLabel(week_name, weeks_to_display) ==
    \E i \in 1..Len(weeks_to_display) : weeks_to_display[i].name = week_name

\* for week_info in weeks_to_display: if week_info['name'] == week_name: return week_info
FirstWithLabel(week_name, weeks_to_display) ==
    weeks_to_display[CHOOSE i \in 1..Len(weeks_to_display) :
                         /\ weeks_to_display[i].name = week_name
                         /\ \A j \in 1..(i - 1) : weeks_to_display[j].name # week_name]

find_week_info_fallback(week_name, weeks_to_display) ==
    IF HasLabel(week_name, weeks_to_display)
    THEN Found(FirstWithLabel(week_name, weeks_to_display))
    ELSE IF Len(weeks_to_display) > 0 THEN Found(weeks_to_display[1]) ELSE None

\* WeekService.find_week_info
find_week_info(week_name, weeks_to_display) ==
    IF HasLabel(week_name, weeks_to_display)
    THEN Found(FirstWithLabel(week_name, weeks_to_display))
    ELSE None

\* PlanningV2Service.find_week_info
v2_find_week_info(week_name, weeks_to_display) ==
    IF HasLabel(week_name, weeks_to_display)
    THEN Found(FirstWithLabel(week_name, weeks_to_display))
    ELSE IF Len(weeks_to_display) > 0 THEN Found(weeks_to_display[1])
    ELSE Found([name |-> week_name, full_name |-> week_name])

call_find_week_info ==
    /\ fw_out' = [routine |-> "WeekService", result |-> find_week_info(fw_label, fw_calendar)]
    /\ UNCHANGED <<fw_label, fw_calendar, assignVars, resp, e2e, dataVars, cacheVars,
                   rateVars, auxButFind>>

call_v2_find_week_info ==
    /\ fw_out' = [routine |-> "PlanningV2Service",
                  result |-> v2_find_week_info(fw_label, fw_calendar)]
    /\ UNCHANGED <<fw_label, fw_calendar, assignVars, resp, e2e, dataVars, cacheVars,
                   rateVars, auxButFind>>

NextFind ==
    \/ call_find_week_info
    \/ call_v2_find_week_info

InitFindSpec ==
    /\ InitBase
    /\ InitAuxButFind
    /\ fw_label \in FindLabels
    /\ fw_calendar \in FindCalendars
    /\ fw_out = [routine |-> "none"]

SpecFind == InitFindSpec /\ [][NextFind]_vars

\* ------------------------------------------------- time_to_minutes inputs
MaxTimeLen == 4

\* Strings are sequences of characters: two digits, the colon, a letter.
TimeChars == {"0", "7", ":", "x"}

TimeStrings == UNION {[1..n -> TimeChars] : n \in 0..MaxTimeLen}

\* A call of TimeSlotService.time_to_minutes; the value ValueError stands
\* for the exception leaving the call.
call_time_to_minutes ==
    /\ tm_out' = [called |-> TRUE,
                  raised |-> time_to_minutes(tm_input) = ValueError,
                  value |-> time_to_minutes(tm_input)]
    /\ UNCHANGED <<tm_input, assignVars, resp, e2e, dataVars, cacheVars, rateVars,
                   auxButTime>>

InitTimeSpec ==
    /\ InitBase
    /\ InitAuxButTime
    /\ tm_input \in TimeStrings
    /\ tm_out = [called |-> FALSE]

SpecTime == InitTimeSpec /\ [][call_time_to_minutes]_vars

\* ------------------------------------------------- professor names
MaxNameLen == 5

\* Names are sequences of characters over a title letter, a letter, the
\* blank and the slash.
NameChars == {"M", "a", " ", "/"}

NameStrings == UNION {[1..n -> NameChars] : n \in 0..MaxNameLen}

\* str.lower / str.upper on one character of the alphabet.
Lower(ch) == CASE ch = "M" -> "m" [] ch = "A" -> "a" [] OTHER -> ch

Upper(ch) == CASE ch = "m" -> "M" [] ch = "a" -> "A" [] OTHER -> ch

IsLetter(ch) == ch \notin {" ", "/"}

LowerStr(s) == [i \in 1..Len(s) |-> Lower(s[i])]

RECURSIVE LStrip(_)
LStrip(s) == IF s # <<>> /\ s[1] = " " THEN LStrip(Tail(s)) ELSE s

RECURSIVE RStrip(_)
RStrip(s) ==
    IF s # <<>> /\ s[Len(s)] = " " THEN RStrip(SubSeq(s, 1, Len(s) - 1)) ELSE s

\* str.strip()
Strip(s) == RStrip(LStrip(s))

\* prefixes_to_remove, in the order of the source.
prefixes_to_remove ==
    << <<"M", "m", "e", " ">>, <<"M", " ">>, <<"M", "l", "l", "e", " ">>,
       <<"M", "r", " ">>, <<"M", "r", "s", " ">>, <<"M", "s", " ">> >>

\* name.lower().startswith(prefix.lower())
StartsWithLower(name, prefix) ==
    /\ Len(name) >= Len(prefix)
    /\ SubSeq(LowerStr(name), 1, Len(prefix)) = LowerStr(prefix)

\* The loop over the prefixes: the first matching one is cut and the loop
\* is left.
remove_prefix(name) ==
    IF \E i \in 1..Len(prefixes_to_remove) : StartsWithLower(name, prefixes_to_remove[i])
    THEN Strip(SubSeq(name,
             Len(prefixes_to_remove[CHOOSE i \in 1..Len(prefixes_to_remove) :
                    /\ StartsWithLower(name, prefixes_to_remove[i])
                    /\ \A j \in 1..(i - 1) :
                          ~StartsWithLower(name, prefixes_to_remove[j])]) + 1,
             Len(name)))
    ELSE name

\* name.split('/')[0].strip() when the name holds a slash.
before_slash(name) ==
    IF \E i \in 1..Len(name) : name[i] = "/"
    THEN Strip(SubSeq(name, 1, (CHOOSE i \in 1..Len(name) :
                                    /\ name[i] = "/"
                                    /\ \A j \in 1..(i - 1) : name[j] # "/") - 1))
    ELSE name

\* ' '.join(name.split()): no blank at either end, single blanks inside.
RECURSIVE Squeeze(_)
Squeeze(s) ==
    IF Len(s) < 2 THEN s
    ELSE IF s[1] = " " /\ s[2] = " " THEN Squeeze(Tail(s))
    ELSE <<s[1]>> \o Squeeze(Tail(s))

join_split(s) == Squeeze(Strip(s))

\* str.title(): upper case after a non-letter, lower case after a letter.
title(s) ==
    [i \in 1..Len(s) |-> IF i = 1 \/ ~IsLetter(s[i - 1]) THEN Upper(s[i]) ELSE Lower(s[i])]

normalize_professor_name(name) ==
    IF name = <<>> THEN <<>>
    ELSE title(join_split(before_slash(remove_prefix(Strip(name)))))

call_normalize ==
    /\ np_out' = [called |-> TRUE,
                  once |-> normalize_professor_name(np_input),
                  twice |-> normalize_professor_name(normalize_professor_name(np_input))]
    /\ UNCHANGED <<np_input, assignVars, resp, e2e, dataVars, cacheVars, rateVars,
                   auxButName>>

InitNameSpec ==
    /\ InitBase
    /\ InitAuxButName
    /\ np_input \in NameStrings
    /\ np_out = [called |-> FALSE]

SpecName == InitNameSpec /\ [][call_normalize]_vars

\* ------------------------------------------------- weekly grid
\* generate_time_grid: one-hour slots from 8h (to 18h in the source, to
\* GridEndHour here).
GridEndHour == 11

MaxPlaced == 2

\* f"{hour:02d}:{minute:02d}" as a sequence of characters.
HHMM(hour, minute) ==
    <<DecimalDigits[(hour \div 10) + 1], DecimalDigits[(hour % 10) + 1], ":",
      DecimalDigits[(minute \div 10) + 1], DecimalDigits[(minute % 10) + 1]>>

SlotLabel(hour) == Fmt(hour) \o "h-" \o Fmt(hour + 1) \o "h"

generate_time_grid ==
    [k \in 1..(GridEndHour - 8) |->
        [start_time |-> HHMM(7 + k, 0), end_time |-> HHMM(8 + k, 0),
         label |-> SlotLabel(7 + k)]]

days_order == <<"Lundi", "Mardi">>

GridDays == {days_order[i] : i \in 1..Len(days_order)}

\* The days and times of the courses handed to the grid; parse_time_range
\* writes every time as HH:MM and does not order start and end.
CourseDays == {"Lundi", "Samedi"}

CourseTimes == {HHMM(7, 30), HHMM(8, 30), HHMM(9, 0), HHMM(10, 30)}

starts_in_slot_inclusive(course, slot) ==
    /\ time_to_minutes(course.start_time) >= time_to_minutes(slot.start_time)
    /\ time_to_minutes(course.start_time) <= time_to_minutes(slot.end_time)

\* course_start_min >= slot_start_min and course_start_min < slot_end_min
starts_in_slot(course, slot) ==
    /\ time_to_minutes(course.start_time) >= time_to_minutes(slot.start_time)
    /\ time_to_minutes(course.start_time) < time_to_minutes(slot.end_time)

\* not (course_end_min <= other_start_min or course_start_min >= other_end_min)
overlaps_slot(course, slot) ==
    ~(time_to_minutes(course.end_time) <= time_to_minutes(slot.start_time)
        \/ time_to_minutes(course.start_time) >= time_to_minutes(slot.end_time))

NoSlot == 0

FirstSlot(S) == IF S = {} THEN NoSlot ELSE CHOOSE k \in S : \A j \in S : k <= j

\* CourseGridService.build_weekly_grid: the first slot the course starts in.
grid_primary_slot(course, time_slots) ==
    FirstSlot({k \in 1..Len(time_slots) : starts_in_slot(course, time_slots[k])})

\* _place_course_in_grid: the first overlapped slot the course starts in.
place_primary_slot(course, time_slots) ==
    FirstSlot({k \in 1..Len(time_slots) :
                  overlaps_slot(course, time_slots[k]) /\ starts_in_slot(course, time_slots[k])})

primary_slot_of(builder, course, time_slots) ==
    IF builder = "CourseGridService" THEN grid_primary_slot(course, time_slots)
    ELSE place_primary_slot(course, time_slots)

full_entry(course) ==
    [course_id |-> course.course_id, is_continuation |-> FALSE, primary_slot |-> "none"]

continuation_entry(course, primary_label) ==
    [course_id |-> course.course_id, is_continuation |-> TRUE, primary_slot |-> primary_label]

\* The slots of one day after the course is placed with primary slot p:
\* every overlapped slot gets the course, in full in the primary slot and
\* as a continuation elsewhere.
place_in_day(day_grid, course, time_slots, p) ==
    [label \in DOMAIN day_grid |->
        IF \E k \in 1..Len(time_slots) :
              time_slots[k].label = label /\ overlaps_slot(course, time_slots[k])
        THEN Append(day_grid[label],
                    IF label = time_slots[p].label THEN full_entry(course)
                    ELSE continuation_entry(course, time_slots[p].label))
        ELSE day_grid[label]]

\* One course of courses_to_place is put into the grid.
place_course(day, start_time, end_time) ==
    /\ Len(grid_courses) < MaxPlaced
    /\ \E course \in {[course_id |-> Len(grid_courses) + 1, day |-> day,
                       start_time |-> start_time, end_time |-> end_time]} :
        /\ grid_courses' = Append(grid_courses, course)
        /\ \E p \in {primary_slot_of(grid_builder, course, generate_time_grid)} :
              weekly_grid' =
                  IF day \in GridDays /\ p # NoSlot
                  THEN [weekly_grid EXCEPT
                           ![day] = place_in_day(weekly_grid[day], course, generate_time_grid, p)]
                  ELSE weekly_grid
    /\ UNCHANGED <<grid_builder, assignVars, resp, e2e, dataVars, cacheVars, rateVars,
                   auxButGrid>>

NextGrid ==
    \E day \in CourseDays, start_time \in CourseTimes, end_time \in CourseTimes :
        place_course(day, start_time, end_time)

GridBuilders == {"CourseGridService", "CacheService"}

InitGridSpec ==
    /\ InitBase
    /\ InitAuxButGrid
    /\ grid_builder \in GridBuilders
    /\ grid_courses = <<>>
    /\ weekly_grid = [day \in GridDays |->
                         [label \in {generate_time_grid[k].label :
                                        k \in 1..Len(generate_time_grid)} |-> <<>>]]

SpecGrid == InitGridSpec /\ [][NextGrid]_vars

\* ------------------------------------------------- rooms for custom courses
\* The entries of custom courses in the room mapping, as records
\* [course_id, room_id]: dict.get and the assignment of one key.
mapping_get(mapping, course_id) ==
    IF \E e \in mapping : e.course_id = course_id
    THEN (CHOOSE e \in mapping : e.course_id = course_id).room_id
    ELSE NoRoom

mapping_set(mapping, course_id, room_id) ==
    {e \in mapping : e.course_id # course_id} \cup {[course_id |-> course_id, room_id |-> room_id]}

\* A custom course as a ProfessorCourse; every custom course of the model
\* has the raw time slot 8h-9h.
CustomRecord(course, assigned) ==
    [course_id |-> course.course_id, week_name |-> course.week_name, day |-> course.day,
     start_time |-> T0800, end_time |-> T0900, assigned_room |-> assigned]

\* ScheduleDataService.get_all_courses: the canonical courses, then the
\* custom courses of the list, each with the room the mapping records.  The
\* serving worker has reloaded the mapping at the end of its last request.
json_all_courses(w) ==
    data_service_get_all_courses(room_assignments[w])
        \o [i \in 1..Len(custom_courses[w]) |->
               CustomRecord(custom_courses[w][i],
                            mapping_get(file_custom_rooms, custom_courses[w][i].course_id))]

\* DatabaseService.get_all_courses: the courses rows, then the
\* custom_courses rows.
db_all_courses == DatabaseService_get_all_courses \o db_custom_courses

all_courses_with_custom(w) == IF use_database[w] THEN db_all_courses ELSE json_all_courses(w)

FileCustomIds == {file_custom_courses[i].course_id : i \in 1..Len(file_custom_courses)}

\* No course of the same week and day that overlaps the custom course has
\* the room in the persisted mapping.
RoomFreeForCustom(course_id, room_id) ==
    /\ \A i \in 1..Len(file_custom_courses) :
          (/\ file_custom_courses[i].course_id # course_id
           /\ \E k \in 1..Len(file_custom_courses) :
                 /\ file_custom_courses[k].course_id = course_id
                 /\ file_custom_courses[k].day = file_custom_courses[i].day)
              => mapping_get(file_custom_rooms, file_custom_courses[i].course_id) # room_id
    /\ \A c \in CourseIds : file_assignments[c] # room_id

\* assign_room for the id of a custom course, with a room_id.
assign_room_custom(w, course_id, room_id) ==
    \E ok \in {/\ ~check_room_conflict_detailed(course_id, room_id, all_courses_with_custom(w))
               /\ ~check_room_conflict(course_id, room_id, all_courses_with_custom(w))} :
        /\ resp' = [op |-> "assign_room_custom", worker |-> w, course_id |-> course_id,
                    room_id |-> room_id, success |-> ok,
                    created |-> course_id \in FileCustomIds,
                    room_free |-> RoomFreeForCustom(course_id, room_id)]
        /\ IF ok
           THEN /\ file_custom_rooms' = mapping_set(file_custom_rooms, course_id, room_id)
                /\ UNCHANGED <<file_assignments, file_canonical, file_prof_data>>
                /\ load_data(w, get_custom_courses(w))
                /\ occupied_rooms_cache' = [occupied_rooms_cache EXCEPT ![w] = EmptyCache]
           ELSE UNCHANGED <<file_custom_rooms, file_assignments, room_assignments,
                            file_canonical, canonical_schedules, file_prof_data, prof_data,
                            rooms, custom_courses, occupied_rooms_cache>>
        /\ UNCHANGED <<db_custom_courses, use_database, db_assigned, e2e, file_custom_courses,
                       file_tp_names, file_prof_id_mapping, usec, now, flask_cache,
                       cache_ext, last_query, rateVars, auxButCustomRoom>>

\* scripts/full_migration.py: the custom_courses table is dropped and
\* refilled from custom_courses.json; the rows take the assigned_room field
\* of the JSON entries, which add_custom_course does not write.
migrate_custom_courses ==
    /\ db_custom_courses' =
           [i \in 1..Len(file_custom_courses) |-> CustomRecord(file_custom_courses[i], NoRoom)]
    /\ resp' = Resp("run_full_migration", 0, "", "", TRUE, FALSE, "none")
    /\ UNCHANGED <<file_custom_rooms, assignVars, e2e, dataVars, cacheVars, rateVars,
                   auxButCustomRoom>>

NextCustomRoom ==
    \/ \E w \in Workers, day \in Days : add_custom_course(w, day)
    \/ \E w \in Workers, c \in CustomIds, r \in Rooms : assign_room_custom(w, c, r)
    \/ \E w \in Workers : switch_to_json(w)
    \/ migrate_custom_courses

SpecCustomRoom == InitCourses /\ [][NextCustomRoom]_vars

\* ------------------------------------------------- the collector's lock
\* MetricsCollector._lock is a threading.Lock: it has no owner and is not
\* reentrant, so an acquire blocks while the lock is held by any thread,
\* the acquiring thread included.  Every public method of the collector
\* runs its body inside "with self._lock".
MetricsFunctions == {"record_request", "record_error", "get_system_metrics",
                     "get_detailed_metrics"}

\* A request thread calls a method of the collector and arrives at its
\* "with self._lock".
metrics_call(t, fn) ==
    /\ metrics_pc[t] = "idle"
    /\ fn = "record_request" => recorded_total < MaxRecorded
    /\ fn = "record_error" => error_count < MaxErrors
    /\ metrics_stack' = [metrics_stack EXCEPT ![t] = <<fn>>]
    /\ metrics_pc' = [metrics_pc EXCEPT ![t] = "with_lock"]
    /\ UNCHANGED <<metrics_lock, assignVars, resp, e2e, dataVars, cacheVars, rateVars,
                   auxButMetricsLock>>

\* Lock.acquire(): enabled only while nobody holds the lock.
lock_acquire(t) ==
    /\ metrics_pc[t] = "with_lock"
    /\ metrics_lock = NoThread
    /\ metrics_lock' = t
    /\ metrics_pc' = [metrics_pc EXCEPT ![t] = "body"]
    /\ UNCHANGED <<metrics_stack, assignVars, resp, e2e, dataVars, cacheVars, rateVars,
                   auxButMetricsLock>>

\* The body of get_detailed_metrics evaluates 'system':
\* self.get_system_metrics(), whose first statement is "with self._lock".
call_get_system_metrics(t) ==
    /\ metrics_pc[t] = "body"
    /\ Head(metrics_stack[t]) = "get_detailed_metrics"
    /\ metrics_stack' = [metrics_stack EXCEPT ![t] = <<"get_system_metrics">> \o @]
    /\ metrics_pc' = [metrics_pc EXCEPT ![t] = "with_lock"]
    /\ UNCHANGED <<metrics_lock, assignVars, resp, e2e, dataVars, cacheVars, rateVars,
                   auxButMetricsLock>>

\* The rest of a body and the exit of its "with": the method's effect on
\* the collector, the release of the lock and the return to the caller.
lock_release(t) ==
    /\ \/ metrics_pc[t] = "body" /\ Head(metrics_stack[t]) # "get_detailed_metrics"
       \/ metrics_pc[t] = "returned"
    /\ \E fn \in {Head(metrics_stack[t])} :
          /\ perf_len' = IF fn = "record_request" THEN deque_append_len(perf_len) ELSE perf_len
          /\ recorded_total' = IF fn = "record_request" THEN recorded_total + 1
                               ELSE recorded_total
          /\ error_count' = IF fn = "record_error" THEN error_count + 1 ELSE error_count
    /\ metrics_lock' = NoThread
    /\ metrics_stack' = [metrics_stack EXCEPT ![t] = Tail(@)]
    /\ metrics_pc' = [metrics_pc EXCEPT
                         ![t] = IF Tail(metrics_stack[t]) = <<>> THEN "idle" ELSE "returned"]
    /\ UNCHANGED <<assignVars, resp, e2e, dataVars, cacheVars, rateVars,
                   auxButMetricsAndLock>>

NextMetricsLock ==
    \/ \E t \in MetricsThreads, fn \in MetricsFunctions : metrics_call(t, fn)
    \/ \E t \in MetricsThreads : lock_acquire(t)
    \/ \E t \in MetricsThreads : call_get_system_metrics(t)
    \/ \E t \in MetricsThreads : lock_release(t)

SpecMetricsLock == InitCourses /\ [][NextMetricsLock]_vars

\* Every thread that can take a step eventually takes it, and a thread
\* waiting for the lock obtains it if the lock is free again and again:
\* more than threading.Lock promises, so that under this specification a
\* call can fail to return only because of the collector itself.
SpecMetricsLockFair ==
    /\ SpecMetricsLock
    /\ \A t \in MetricsThreads :
          /\ SF_vars(lock_acquire(t))
          /\ WF_vars(call_get_system_metrics(t))
          /\ WF_vars(lock_release(t))

\* ------------------------------------------------- domain room assignment
\* The rooms of the domain layer.
DomainRooms == {"A101", "B202"}

\* TimeSlot.overlaps_with on the slots of two courses.
overlaps_with(a, b) == ~(EndMin(a) <= StartMin(b) \/ EndMin(b) <= StartMin(a))

\* Course.has_conflict_with: same week, same day, overlapping slots, and
\* either both courses are in the same room or one of them has no room.
has_conflict_with(a, room_a, b, room_b) ==
    /\ CourseTable[a].week_name = CourseTable[b].week_name
    /\ CourseTable[a].day = CourseTable[b].day
    /\ overlaps_with(a, b)
    /\ \/ (room_a # NoRoom /\ room_b # NoRoom /\ room_a = room_b)
       \/ room_a = NoRoom
       \/ room_b = NoRoom

\* SqlAlchemyCourseRepository.find_conflicting_courses: the other saved
\* courses of the same week and day with which the given course, carrying
\* its current room, has a conflict.
find_conflicting_courses(course, assigned_room_id) ==
    {d \in CourseIds \ {course} :
        /\ CourseTable[d].week_name = CourseTable[course].week_name
        /\ CourseTable[d].day = CourseTable[course].day
        /\ has_conflict_with(course, assigned_room_id, d, repo_assigned[d])}

\* The courses of the model have no student count and a standard course
\* type, so capacity and equipment never refuse a room.
can_assign_room_to_course(course, room) ==
    \A d \in find_conflicting_courses(course, repo_assigned[course]) :
        repo_assigned[d] # room

DomainResp(op, course, room, result) ==
    [op |-> op, course_id |-> course, room_id |-> room, result |-> result]

\* RoomAssignmentService.assign_room_to_course on a course loaded from the
\* repository.
domain_assign_room_to_course(course, room) ==
    /\ repo_assigned' = IF can_assign_room_to_course(course, room)
                        THEN [repo_assigned EXCEPT ![course] = room]
                        ELSE repo_assigned
    /\ resp' = DomainResp("assign_room_to_course", course, room,
                          can_assign_room_to_course(course, room))
    /\ UNCHANGED <<assignVars, e2e, dataVars, cacheVars, rateVars, auxButDomain>>

\* RoomAssignmentService.unassign_room_from_course
domain_unassign_room_from_course(course) ==
    /\ repo_assigned' = [repo_assigned EXCEPT ![course] = NoRoom]
    /\ resp' = DomainResp("unassign_room_from_course", course, NoRoom, TRUE)
    /\ UNCHANGED <<assignVars, e2e, dataVars, cacheVars, rateVars, auxButDomain>>

\* validate_schedule_integrity over all saved courses: the pairs of
\* courses of one room that has_conflict_with reports.
validate_schedule_integrity ==
    {p \in CourseIds \X CourseIds :
        /\ p[1] # p[2]
        /\ repo_assigned[p[1]] # NoRoom
        /\ repo_assigned[p[1]] = repo_assigned[p[2]]
        /\ has_conflict_with(p[1], repo_assigned[p[1]], p[2], repo_assigned[p[2]])}

NextDomain ==
    \/ \E course \in CourseIds, room \in DomainRooms : domain_assign_room_to_course(course, room)
    \/ \E course \in CourseIds : domain_unassign_room_from_course(course)

SpecDomain == InitCourses /\ [][NextDomain]_vars

\* ------------------------------------------------------ the planning cache
MaxSyncWrites == 2

\* The synchronisation writes the time of the sync: a value larger than
\* the one stored before.
write_last_sync ==
    /\ sync_changes < MaxSyncWrites
    /\ last_sync_file' = IF last_sync_file = NoSyncFile THEN 1 ELSE last_sync_file + 1
    /\ sync_changes' = sync_changes + 1
    /\ UNCHANGED <<cs_last_sync_time, courses_cache, assignVars, resp, e2e, dataVars,
                   cacheVars, rateVars, auxButPlan>>

\* is_planning_cache_valid: the file exists and its float equals
\* _last_sync_time; False in every other case.
is_planning_cache_valid(w) ==
    last_sync_file # NoSyncFile /\ last_sync_file = cs_last_sync_time[w]

\* clear_planning_cache sets _last_sync_time to 0; update_sync_time then
\* reads the file when it exists and leaves the 0 otherwise.
update_sync_time == IF last_sync_file # NoSyncFile THEN last_sync_file ELSE 0

courses_of_week(w, week_name) ==
    SelectSeq(get_all_courses(w), LAMBDA course : course.week_name = week_name)

\* CacheService.clear_planning_cache, as the fast planning route calls it.
clear_planning_cache(w) ==
    /\ courses_cache' = [courses_cache EXCEPT ![w] = [k \in PlanWeeks |-> NoWeekList]]
    /\ cs_last_sync_time' = [cs_last_sync_time EXCEPT ![w] = 0]
    /\ resp' = [op |-> "clear_planning_cache", worker |-> w]
    /\ UNCHANGED <<last_sync_file, sync_changes, assignVars, e2e, dataVars, cacheVars,
                   rateVars, auxButPlan>>

\* CacheService.get_cached_courses_for_week.  The response records, next
\* to the returned list, whether an entry for the week was in the cache
\* when the call began, after how many timestamp changes that entry and the
\* returned list were computed, and whether the list is the cached one.
get_cached_courses_for_week(w, week_name) ==
    \E valid \in {is_planning_cache_valid(w)} :
    \E cache \in {IF valid THEN courses_cache[w] ELSE [k \in PlanWeeks |-> NoWeekList]} :
    \E entry \in {IF cache[week_name].present THEN cache[week_name]
                  ELSE [present |-> TRUE, courses |-> courses_of_week(w, week_name),
                        computed_after |-> sync_changes]} :
        /\ cs_last_sync_time' =
               [cs_last_sync_time EXCEPT ![w] = IF valid THEN @ ELSE update_sync_time]
        /\ courses_cache' = [courses_cache EXCEPT ![w] = [cache EXCEPT ![week_name] = entry]]
        /\ resp' = [op |-> "get_cached_courses_for_week", worker |-> w,
                    week_name |-> week_name, courses |-> entry.courses,
                    computed_after |-> entry.computed_after,
                    changes |-> sync_changes,
                    had_entry |-> courses_cache[w][week_name].present,
                    entry_after |-> IF courses_cache[w][week_name].present
                                    THEN courses_cache[w][week_name].computed_after ELSE 0,
                    reused |-> cache[week_name].present]
        /\ UNCHANGED <<last_sync_file, sync_changes, assignVars, e2e, dataVars, cacheVars,
                       rateVars, auxButPlan>>

NextPlan ==
    \/ write_last_sync
    \/ \E w \in Workers, week_name \in PlanWeeks : get_cached_courses_for_week(w, week_name)
    \/ \E w \in Workers : clear_planning_cache(w)
    \/ \E w \in Workers, c \in CacheAssignCourses, r \in Rooms : assign_room(w, c, r)
    \/ \E w \in Workers : switch_to_json(w)

SpecPlan == InitCourses /\ [][NextPlan]_vars

\* ------------------------------------------------ professor default colour
\* hash() of a str is salted with a value drawn when the interpreter
\* starts (no PYTHONHASHSEED is set and gunicorn does not preload the
\* application), so PROF_COLORS[hash(prof_name) % len(PROF_COLORS)] is one
\* fixed colour per name within a process and any of the colours from one
\* process to the next.  Two of the nine colours stand for them.
DefaultColors == {"#e57373", "#81c784"}

InitColorSpec ==
    /\ InitBase
    /\ InitAuxButColor
    /\ hash_color \in [Workers -> [Professors -> DefaultColors]]
    /\ color_returned = [p \in Professors |-> NoColor]

\* ProfessorManagementService.get_prof_color on the worker's prof_data.
default_color(w, prof_name) == hash_color[w][prof_name]

\* ScheduleManager.get_prof_color: the stored colour of the worker's
\* prof_data when it has one; otherwise the default is put into that dict,
\* the dict is written out whole, and the colour returned.  Either way the
\* worker then re-reads prof_data.json.
get_prof_color(w, prof_name) ==
    \E known \in {prof_data[w][prof_name] # NoColor} :
    \E color \in {IF known THEN prof_data[w][prof_name] ELSE default_color(w, prof_name)} :
        /\ file_prof_data' = IF known THEN file_prof_data
                             ELSE [prof_data[w] EXCEPT ![prof_name] = color]
        /\ prof_data' = [prof_data EXCEPT ![w] = file_prof_data']
        /\ color_returned' = IF color_returned[prof_name] = NoColor
                             THEN [color_returned EXCEPT ![prof_name] = color]
                             ELSE color_returned
        /\ resp' = [op |-> "get_prof_color", worker |-> w, prof_name |-> prof_name,
                    color |-> color, first |-> color_returned[prof_name], saved |-> ~known]
        /\ UNCHANGED <<hash_color, assignVars, e2e, file_custom_courses, custom_courses,
                       file_canonical, canonical_schedules, rooms, file_tp_names,
                       file_prof_id_mapping, usec, cacheVars, rateVars, auxButColor>>

\* gunicorn replaces a worker process: the new interpreter has its own hash
\* salt and loads the data files.
worker_restart(w) ==
    /\ hash_color' \in {[hash_color EXCEPT ![w] = h] : h \in [Professors -> DefaultColors]}
    /\ UNCHANGED <<file_assignments, file_canonical, file_prof_data>>
    /\ load_data(w, get_custom_courses(w))
    /\ resp' = [op |-> "worker_restart", worker |-> w]
    /\ UNCHANGED <<color_returned, use_database, db_assigned, e2e, file_custom_courses,
                   file_tp_names, file_prof_id_mapping, usec, cacheVars, rateVars,
                   auxButColor>>

NextColor ==
    \/ \E w \in Workers, p \in Professors : get_prof_color(w, p)
    \/ \E w \in Workers : force_sync_data(w)
    \/ \E w \in Workers : worker_restart(w)

SpecColor == InitColorSpec /\ [][NextColor]_vars

\* ------------------------------------------- calendar dates and detection
\* date + timedelta(days), for a sum that stays within the following year.
date_plus_days(d, days) ==
    IF d.ordinal + days <= DaysInYear(d.year)
    THEN [year |-> d.year, ordinal |-> d.ordinal + days]
    ELSE [year |-> d.year + 1, ordinal |-> d.ordinal + days - DaysInYear(d.year)]

\* date(2025, 9, 1) and date(2026, 1, 5)
start_date == [year |-> 2025, ordinal |-> 244]

january_start == [year |-> 2026, ordinal |-> 5]

\* monday_date of the i-th entry of generate_academic_calendar: weeks
\* 36..52 count from start_date, weeks 1..35 from january_start.
monday_date(i) ==
    IF i <= 17 THEN date_plus_days(start_date, ((35 + i) - 36) * 7)
    ELSE date_plus_days(january_start, ((i - 17) - 1) * 7)

\* PlanningV2Service.determine_current_week
determine_current_week(d, weeks_to_display) ==
    IF d.year = 2025 /\ isocalendar_week(d) >= 36
    THEN WeekName(Fmt(isocalendar_week(d)), WeekType((isocalendar_week(d) - 36) % 2 = 0))
    ELSE IF d.year = 2026 /\ isocalendar_week(d) <= 35
    THEN WeekName(Fmt02(isocalendar_week(d)),
                  WeekType((17 + isocalendar_week(d) - 1) % 2 = 0))
    ELSE IF Len(weeks_to_display) > 0 THEN weeks_to_display[1] ELSE "Semaine 36 A"

CalendarRoutines == {"week_service", "planning_v2"}

\* Current-week detection on the day monday_date of the entry.
detect_on_entry(routine) ==
    /\ cal_out' = [routine |-> routine, index |-> cal_index,
                   entry |-> generate_academic_calendar[cal_index],
                   monday |-> monday_date(cal_index),
                   name |-> IF routine = "week_service"
                            THEN get_current_week_name(monday_date(cal_index),
                                                       generate_academic_calendar)
                            ELSE determine_current_week(monday_date(cal_index),
                                                        generate_academic_calendar)]
    /\ UNCHANGED <<cal_index, assignVars, resp, e2e, dataVars, cacheVars, rateVars,
                   auxButCalendar>>

NextCalendar == \E routine \in CalendarRoutines : detect_on_entry(routine)

\* Every entry of the calendar.
InitCalendarSpec ==
    /\ InitBase
    /\ InitAuxButCalendar
    /\ cal_index \in 1..Len(generate_academic_calendar)
    /\ cal_out = [routine |-> "none"]

SpecCalendar == InitCalendarSpec /\ [][NextCalendar]_vars

\* ------------------------------------------------------------------ claims
\* C1: with a room that no overlapping course occupies, assigning it to
\* course A succeeds, and a following assignment of the same room to the
\* overlapping course B is rejected and records no mapping for B.
C1_SecondAssignmentRejected ==
    [][/\ (/\ resp'.op = "assign_room"
           /\ resp'.course_id = ScenarioA /\ resp'.room_id = ScenarioRoom
           /\ FreeInFile(ScenarioA, ScenarioRoom, {}))
          => resp'.success
       /\ (/\ e2e = 1
           /\ resp'.op = "assign_room"
           /\ resp'.course_id = ScenarioB /\ resp'.room_id = ScenarioRoom)
          => (~resp'.success /\ file_assignments'[ScenarioB] # ScenarioRoom)]_vars

\* C2: the persisted mapping never gives one room to two distinct courses of
\* the same week and day whose time ranges overlap.
C2_NoDoubleBooking ==
    \A a, b \in CourseIds :
        Overlapping[a, b] =>
            ~(file_assignments[a] # NoRoom /\ file_assignments[a] = file_assignments[b])

\* C3: once A holds the room, B was refused it and A's assignment was then
\* removed, a following request to give B the room succeeds (no third
\* overlapping course holding the room).
C3_AssignAfterRemovalSucceeds ==
    [][(/\ e2e = 3
        /\ resp'.op = "assign_room"
        /\ resp'.course_id = ScenarioB /\ resp'.room_id = ScenarioRoom
        /\ FreeInFile(ScenarioB, ScenarioRoom, {ScenarioA}))
       => (resp'.success /\ file_assignments'[ScenarioB] = ScenarioRoom)]_vars

\* No course overlapping c is recorded in room r in the mapping file, in the
\* database rows or in worker w's own mapping.
FreeEverywhere(w, c, r) ==
    \A d \in CourseIds \ {c} :
        Overlapping[c, d] =>
            /\ file_assignments[d] # r
            /\ db_assigned[d] # r
            /\ room_assignments[w][d] # r

C5_SecondCallFromCache ==
    (/\ resp.op = "get_occupied_rooms"
     /\ resp.prev_within_ttl)
    => (resp.status = "200" /\ resp.from_cache = "true")

PassTimes(w, ip) ==
    {passed[w][ip].web[i] : i \in 1..Len(passed[w][ip].web)}
    \cup {passed[w][ip].api[i] : i \in 1..Len(passed[w][ip].api)}

InMemoryEqualsDisk(w) ==
    /\ room_assignments[w] = file_assignments
    /\ canonical_schedules[w] = file_canonical
    /\ prof_data[w] = file_prof_data
    /\ rooms[w] = RoomsFile
    /\ custom_courses[w] = file_custom_courses

\* C9: when force_sync_data has returned in a worker, that worker's room
\* assignments, canonical schedules, professor metadata, room list and
\* custom courses equal what the files hold, so every write completed by any
\* worker before the sync is visible in that worker.
C9_SyncedStateEqualsDisk ==
    resp.synced = "force_sync_data" => InMemoryEqualsDisk(resp.worker)

MutatingOps ==
    {"assign_room", "unassign_room", "add_custom_course", "move_custom_course",
     "duplicate_course", "delete_course", "update_tp_name", "delete_tp_name",
     "add_professor", "delete_professor", "update_prof_color", "save_prof_schedule"}

\* C10: every state-mutating endpoint that has performed its write has
\* called force_sync_data by the time its response is returned.
C10_MutationsForceSync ==
    (resp.op \in MutatingOps /\ resp.wrote) => resp.synced = "force_sync_data"

RestartsInWindow(e) ==
    Cardinality({i \in 1..Len(restart_log) :
                    restart_log[i] > e - RestartHour /\ restart_log[i] <= e})

\* C12: in every window of 3600 seconds (taken as the 3600 seconds ending
\* with a restart) the monitor has performed at most 3 restarts.
C12_RestartsPerHour ==
    \A i \in 1..Len(restart_log) : RestartsInWindow(restart_log[i]) <= MAX_RESTARTS_PER_HOUR

C12_Witness ==
    /\ resp.op = "run_health_check"
    /\ resp.needs_restart
    /\ ~resp.restarted
    /\ RestartsInWindow(now) = MAX_RESTARTS_PER_HOUR

\* C13: the health endpoint answers 503 exactly when memory usage is above
\* 90% or the errors recorded are more than 10% of the requests recorded
\* since process start, and 200 otherwise.
C13_HealthStatus ==
    resp.op = "health_check"
        => ((resp.status_code = 503)
                <=> (resp.memory_percent > MemoryLimit
                        \/ resp.errors * 100 > ErrorRateLimit * resp.recorded))

\* C14: after migrate_all_data has run on a non-empty database, every table
\* holds exactly the rows derived from the current JSON files, and no row
\* from before the run remains unless the files derive it again.
C14_MigrationReplacesRows ==
    (resp.op = "migrate_all_data" /\ \E t \in MigratedTables : resp.before[t] # {})
        => \A t \in MigratedTables : resp.after[t] = rows_from_json(resp.files[t])

\* C15: for a date that is neither in 2025 with ISO week >= 36 nor in 2026
\* with ISO week <= 35, every current-week routine returns the first
\* generated calendar week, "Semaine 36 A".
InSchoolYear(d) ==
    \/ d.year = 2025 /\ isocalendar_week(d) >= 36
    \/ d.year = 2026 /\ isocalendar_week(d) <= 35

C15_FallbackIsFirstWeek ==
    (week_out.routine \in WeekRoutines /\ ~InSchoolYear(today))
        => (week_out.name = generate_academic_calendar[1] /\ week_out.name = "Semaine 36 A")

ValidHHMM(s) ==
    /\ Cardinality(ColonPositions(s)) = 1
    /\ \E k \in ColonPositions(s) :
          /\ k - 1 \in 1..2
          /\ Len(s) - k \in 1..2
          /\ ParseInt(SubSeq(s, 1, k - 1)) \in 0..23
          /\ ParseInt(SubSeq(s, k + 1, Len(s))) \in 0..59

\* C17: for every input string that is not a valid HH:MM time, the empty
\* string and strings with a colon and non-integer parts included,
\* time_to_minutes returns 0 and does not raise.
C17_InvalidTimeGivesZero ==
    (tm_out.called /\ ~ValidHHMM(tm_input)) => (~tm_out.raised /\ tm_out.value = 0)

\* C18: professor-name normalization is idempotent: normalising a
\* normalised name gives the same name.
C18_NormalizeIdempotent == np_out.called => np_out.twice = np_out.once

\* C19: duplicate_course with a list of days (and the week) appends exactly
\* one custom course per (day, week) pair, in order, and each of them has a
\* course_id that no other custom course of the list has, the other
\* courses of the same call included.
DuplicatedAsClaimed(old, new, days) ==
    /\ Len(new) = Len(old) + Len(days)
    /\ SubSeq(new, 1, Len(old)) = old
    /\ \A i \in (Len(old) + 1)..Len(new) :
          /\ new[i].day = days[i - Len(old)]
          /\ new[i].week_name = CustomWeek
          /\ \A j \in 1..Len(new) : j # i => new[j].course_id # new[i].course_id

C19_DuplicateUniqueIds ==
    [][\A w \in Workers, days \in DuplicateDays :
          duplicate_course(w, days)
              => DuplicatedAsClaimed(custom_courses[w], custom_courses'[w], days)]_vars

\* The entries of a course in the slot with the given label of its day.
EntriesOf(course, label) ==
    SelectSeq(weekly_grid[course.day][label], LAMBDA e : e.course_id = course.course_id)

StartMinute(course) == time_to_minutes(course.start_time)

EndMinute(course) == time_to_minutes(course.end_time)

\* Slot k holds the start of the course / shares a stretch of time with it.
StartLiesIn(course, k) ==
    60 * (7 + k) <= StartMinute(course) /\ StartMinute(course) < 60 * (8 + k)

\* Some minute of slot k is at or after the start and before the end.
SharesTime(course, k) ==
    /\ StartMinute(course) < EndMinute(course)
    /\ StartMinute(course) < 60 * (8 + k)
    /\ EndMinute(course) > 60 * (7 + k)

GridSlots == 1..(GridEndHour - 8)

\* C20: a course of a grid day whose start lies in slot i and whose time
\* range overlaps further slots is once in slot i as a full entry and, in
\* every other slot it overlaps, a continuation entry whose primary_slot
\* is the label of slot i.
C20_PrimaryAndContinuations ==
    \A n \in 1..Len(grid_courses), i \in GridSlots :
        (/\ grid_courses[n].day \in GridDays
         /\ StartLiesIn(grid_courses[n], i)
         /\ \E j \in GridSlots \ {i} : SharesTime(grid_courses[n], j))
            => /\ EntriesOf(grid_courses[n], SlotLabel(7 + i)) = <<full_entry(grid_courses[n])>>
               /\ \A j \in GridSlots \ {i} :
                     SharesTime(grid_courses[n], j)
                         => EntriesOf(grid_courses[n], SlotLabel(7 + j))
                                = <<continuation_entry(grid_courses[n], SlotLabel(7 + i))>>

C20_Witness ==
    \E n \in 1..Len(grid_courses) :
        /\ grid_courses[n].day \in GridDays
        /\ StartLiesIn(grid_courses[n], 1)
        /\ SharesTime(grid_courses[n], 2)
        /\ SharesTime(grid_courses[n], 3)
        /\ EntriesOf(grid_courses[n], SlotLabel(10))
               = <<continuation_entry(grid_courses[n], SlotLabel(8))>>

\* C21: removing the room assignment of course X changes only X's entry of
\* the persisted mapping: every other course's persisted assignment is as
\* it was, also when other workers have written since this worker's last
\* sync.
C21_UnassignTouchesOnlyOwnEntry ==
    [][\A w \in Workers, c \in CourseIds :
          unassign_room(w, c)
              => \A d \in CourseIds \ {c} : file_assignments'[d] = file_assignments[d]]_vars

C23_CustomCourseAssignable ==
    (resp.op = "assign_room_custom" /\ resp.created /\ resp.room_free)
        => /\ resp.success
           /\ mapping_get(file_custom_rooms, resp.course_id) = resp.room_id

\* C24: a call of get_detailed_metrics (the /api/metrics request) always
\* returns: a thread that has entered get_detailed_metrics eventually has
\* left every method of the collector, whatever the other threads record.
C24_DetailedMetricsReturns ==
    \A t \in MetricsThreads :
        (metrics_stack[t] # <<>>
            /\ metrics_stack[t][Len(metrics_stack[t])] = "get_detailed_metrics")
        ~> (metrics_stack[t] = <<>>)

\* C25: from a repository without room conflicts, after any sequence of
\* assign_room_to_course and unassign_room_from_course calls,
\* validate_schedule_integrity over the saved courses returns no error: no
\* two courses of one week and day with overlapping slots share a room.
C25_ScheduleIntegrity == validate_schedule_integrity = {}

\* C26: two workers that both hold the advisory flock never run their
\* reload callbacks at the same time; whenever two workers are in their
\* callbacks together, at least one of them entered on the timeout path,
\* max_wait seconds or more after its start_time.
C26_LockedReloadsExclusive ==
    \A w1 \in Workers : \A w2 \in Workers \ {w1} :
        (sync_pc[w1] \in {"locked", "unlocked"} /\ sync_pc[w2] \in {"locked", "unlocked"})
            => /\ ~(sync_pc[w1] = "locked" /\ sync_pc[w2] = "locked")
               /\ \E w \in {w1, w2} :
                     sync_pc[w] = "unlocked" /\ now - sync_start[w] >= max_wait

C26_Witness ==
    \E w1 \in Workers : \E w2 \in Workers \ {w1} :
        /\ sync_pc[w1] = "locked"
        /\ sync_lock = w1
        /\ sync_pc[w2] = "unlocked"

\* C27: get_cached_courses_for_week never returns a list computed before
\* the most recent change of the timestamp stored in data/.last_sync, and
\* it returns the cached list whenever the cache holds one for the week
\* that was computed since the stored timestamp last changed.
C27_PlanningCacheFollowsTimestamp ==
    resp.op = "get_cached_courses_for_week"
        => /\ resp.computed_after = resp.changes
           /\ (resp.had_entry /\ resp.entry_after = resp.changes) => resp.reused

\* C28: a request to an API route is never rejected while the workers'
\* limiter has admitted fewer than the API limit of requests of that IP,
\* web and API together, in the Window seconds before it.
C28_ApiAdmittedBelowApiLimit ==
    (resp.op = "request" /\ resp.endpoint \in ApiRoutes /\ resp.window_count < ApiLimit)
        => resp.status = "200"

C30_CalendarAgreesWithDetection ==
    cal_out.routine # "none" => cal_out.name = cal_out.entry

====
